---- MODULE Spec2Model ----
(***************************************************************************)
(* Model of the calendar synchronisation and token-refresh subsystem of    *)
(* the Gaffer API (apps/api/app/services): the cache service with its two  *)
(* backends, the Google token service, and the calendar sync service.      *)
(*                                                                         *)
(* Several specifications share the variables below.  Each specification   *)
(* moves its own group of variables and leaves the others at their         *)
(* initial value:                                                          *)
(*   SpecCache  CacheService over a Redis primary and an in-memory fallback*)
(*   Spec       sync_calendar called for one user, one call after another  *)
(*   SpecRace   two sync_calendar calls of the same user, interleaved      *)
(*   SpecRead   GET /calendar/events requests with their auto-sync         *)
(*   SpecProvider, SpecProviderRace  sync against a calendar that changes  *)
(*   SpecVault  concurrent calls of the token service                      *)
(*   SpecToken  calls of the token service by one caller, one at a time    *)
(*   SpecCred   store/get/has_refresh_token called directly, two users     *)
(*   SpecStore  _store_events and get_cached_events over two users' rows   *)
(*   SpecFetch  _fetch_events_from_google page by page                     *)
(*   SpecPolicy should_sync beside sync requests, on a clock of minutes    *)
(*   SpecQuiet  sync against a calendar that changes between syncs only    *)
(*   SpecRefresh  get_access_token calls of one user, interleaved          *)
(*   SpecHype   hype records written, then joined by get_cached_events     *)
(*   SpecQuota  POST /hype/generate requests of one user, interleaved      *)
(***************************************************************************)
EXTENDS Integers, Sequences, FiniteSets, Bags, TLC

VARIABLES
    now,                  \* datetime.now(timezone.utc), in model time units
    \* ---- cache_service.py
    using_fallback,       \* CacheService._using_fallback
    primary_up,           \* whether the Redis server answers right now
    redis_data,           \* the Redis keyspace: key -> entry or NoEntry
    mem_cache,            \* InMemoryCacheBackend._cache of the fallback
    closed,               \* the backends whose close() has been called
    last_op,              \* record of the last CacheService operation
    \* ---- google_token_service.py
    access_token_cache,   \* module dict _access_token_cache
    user_google_tokens,   \* table user_google_tokens (set of rows)
    issued,               \* number of tokens the provider has issued so far
    \* ---- calendar_sync_service.py
    calendar_sync_state,  \* table calendar_sync_state (set of rows)
    calendar_events,      \* table calendar_events (bag of rows)
    google_events,        \* the user's primary calendar at the provider:
                          \* the set of its event resources
    \* ---- hype_storage_service.py
    hype_records,         \* table hype_records (set of rows)
    \* ---- the calls in flight
    pc,                   \* position of each request coroutine
    loc,                  \* its local variables
    \* ---- the last direct call (get_cached_events, *_refresh_token) or
    \*      the GET /calendar/events request in progress
    call                  \* its arguments and what it returned or raised

cacheVars == <<using_fallback, primary_up, redis_data, mem_cache, closed, last_op>>
vaultVars == <<access_token_cache, user_google_tokens, issued>>
syncVars  == <<calendar_sync_state, calendar_events>>
procVars  == <<pc, loc>>
vars == <<now, cacheVars, vaultVars, syncVars, google_events, hype_records,
          procVars, call>>

None == "None"            \* Python's None
NoEntry == <<>>           \* a key that is not in a dict / keyspace
NoCall == [op |-> "none"]

(***************************************************************************)
(* Bounds of the model.                                                    *)
(***************************************************************************)
MaxTime == 2              \* the clock may advance MaxTime times
MaxIssued == 2            \* tokens the provider issues in one behaviour
MaxPages == 2             \* pages of one paginated fetch
MaxBatch == 2             \* items of a batch handed to _store_events

Users == {"u1"}
Procs == {"p1", "p2"}
TickStep == {25}          \* minutes the clock advances by in one step
Horizon == MaxTime * 25

(***************************************************************************)
(* The clock.  Every timestamp of the program is a reading of now.         *)
(***************************************************************************)
Tick ==
    /\ \E d \in TickStep : now + d <= Horizon /\ now' = now + d
    /\ UNCHANGED <<cacheVars, vaultVars, syncVars, google_events, hype_records,
                   procVars, call>>

(***************************************************************************)
(* cache_service.py                                                        *)
(***************************************************************************)
CacheKeys == {"k1", "k2"}
CacheValues == {"", "a"}
CacheTtls == {-1, 50}

\* A cached entry is the pair (value, expires_at).
Entry(v, e) == <<v, e>>
EValue(x) == x[1]
EExpires(x) == x[2]

\* An InMemoryCacheBackend.get that still returns the value at the instant
\* of expiry.
MemGetAtExpiry(cache, k, t) ==
    IF cache[k] # NoEntry
    THEN IF t <= EExpires(cache[k])
         THEN [result |-> EValue(cache[k]), cache |-> cache]
         ELSE [result |-> None, cache |-> [cache EXCEPT ![k] = NoEntry]]
    ELSE [result |-> None, cache |-> cache]

\* InMemoryCacheBackend.get: the value while now < expires_at; an expired
\* entry is deleted by the read.
MemGet(cache, k, t) ==
    IF cache[k] # NoEntry
    THEN IF t < EExpires(cache[k])
         THEN [result |-> EValue(cache[k]), cache |-> cache]
         ELSE [result |-> None, cache |-> [cache EXCEPT ![k] = NoEntry]]
    ELSE [result |-> None, cache |-> cache]

\* InMemoryCacheBackend.set
MemSet(cache, k, v, ttl, t) ==
    [result |-> TRUE, cache |-> [cache EXCEPT ![k] = Entry(v, t + ttl)]]

\* An InMemoryCacheBackend.delete that reports and leaves the entry.
MemDeleteKeeping(cache, k) ==
    [result |-> cache[k] # NoEntry, cache |-> cache]

\* InMemoryCacheBackend.delete: pop(key, None) is not None
MemDelete(cache, k) ==
    [result |-> cache[k] # NoEntry, cache |-> [cache EXCEPT ![k] = NoEntry]]

\* The Redis server expires keys natively: a key is there while its expiry
\* lies in the future.
RedisLive(data, k, t) == data[k] # NoEntry /\ t < EExpires(data[k])

\* RedisCacheBackend.get; ok = the server answered.  `value.decode() if
\* value else None`: an empty value reads as None, an exception as None.
RedisGet(data, k, t, ok) ==
    IF ok /\ RedisLive(data, k, t) /\ EValue(data[k]) # ""
    THEN [result |-> EValue(data[k]), cache |-> data]
    ELSE [result |-> None, cache |-> data]

\* A RedisCacheBackend.set whose except branch answers True as well.
RedisSetAlwaysTrue(data, k, v, ttl, t, ok) ==
    [result |-> TRUE,
     cache |-> IF ok /\ ttl > 0 THEN [data EXCEPT ![k] = Entry(v, t + ttl)]
               ELSE data]

\* RedisCacheBackend.set: setex(key, int(ttl.total_seconds()), value); the
\* server rejects an expire time that is not positive, and the exception is
\* caught.
RedisSet(data, k, v, ttl, t, ok) ==
    IF ok /\ ttl > 0
    THEN [result |-> TRUE, cache |-> [data EXCEPT ![k] = Entry(v, t + ttl)]]
    ELSE [result |-> FALSE, cache |-> data]

\* RedisCacheBackend.delete: result > 0
RedisDelete(data, k, t, ok) ==
    IF ok
    THEN [result |-> RedisLive(data, k, t), cache |-> [data EXCEPT ![k] = NoEntry]]
    ELSE [result |-> FALSE, cache |-> data]

\* A ping that answers True whatever the server does.
RedisPingAlwaysTrue(up) == TRUE

\* RedisCacheBackend.ping: the server's answer, False on an exception
RedisPing(up) == up

\* A bug _get_backend could have: it health-checks the primary on every call
\* and returns to it when it answers again.
GetBackendRecovering(uf, up) ==
    IF RedisPing(up)
    THEN [backend |-> "primary", using_fallback |-> FALSE, pinged |-> TRUE]
    ELSE [backend |-> "fallback", using_fallback |-> TRUE, pinged |-> TRUE]

\* CacheService._get_backend: uf = self._using_fallback, up = what the
\* primary would answer to a ping now.
GetBackend(uf, up) ==
    IF uf
    THEN [backend |-> "fallback", using_fallback |-> TRUE, pinged |-> FALSE]
    ELSE IF RedisPing(up)
         THEN [backend |-> "primary", using_fallback |-> FALSE, pinged |-> TRUE]
         ELSE [backend |-> "fallback", using_fallback |-> TRUE, pinged |-> TRUE]

\* The record of an operation; set and delete answer a bool, written here as
\* the strings "True" and "False".
OpRecord(op, k, res, b) ==
    [seq |-> 1 - last_op.seq, op |-> op, key |-> k,
     result |-> IF op = "get" THEN res ELSE IF res THEN "True" ELSE "False",
     pinged |-> b.pinged, backend |-> b.backend]

\* One CacheService operation: choose the backend, then run the operation on
\* it.  The server may have gone away between the ping and the operation
\* (ok); the operation's exception is swallowed by the backend.
CacheOp(op, k, v, ttl) ==
    LET b == GetBackend(using_fallback, primary_up) IN
    /\ closed = {}
    /\ using_fallback' = b.using_fallback
    /\ IF b.backend = "primary"
       THEN \E ok \in BOOLEAN :
              LET r == CASE op = "get" -> RedisGet(redis_data, k, now, ok)
                         [] op = "set" -> RedisSet(redis_data, k, v, ttl, now, ok)
                         [] op = "delete" -> RedisDelete(redis_data, k, now, ok)
              IN /\ redis_data' = r.cache
                 /\ primary_up' = ok
                 /\ last_op' = OpRecord(op, k, r.result, b)
                 /\ UNCHANGED mem_cache
       ELSE LET r == CASE op = "get" -> MemGet(mem_cache, k, now)
                       [] op = "set" -> MemSet(mem_cache, k, v, ttl, now)
                       [] op = "delete" -> MemDelete(mem_cache, k)
            IN /\ mem_cache' = r.cache
               /\ last_op' = OpRecord(op, k, r.result, b)
               /\ UNCHANGED <<redis_data, primary_up>>
    /\ UNCHANGED <<now, google_events, hype_records, closed, vaultVars, syncVars, procVars, call>>

\* CacheService.get
CacheGet == \E k \in CacheKeys : CacheOp("get", k, "", 0)

\* CacheService.set
CacheSet == \E k \in CacheKeys, v \in CacheValues, ttl \in CacheTtls :
                CacheOp("set", k, v, ttl)

\* CacheService.delete
CacheDelete == \E k \in CacheKeys : CacheOp("delete", k, "", 0)

\* A close that closes the active backend only.
ClosedByCloseActive(uf) == IF uf THEN {"fallback"} ELSE {"primary"}

\* The backends CacheService.close closes: self._primary, then
\* self._fallback, whatever self._using_fallback (uf) is.
ClosedByClose(uf) == {"primary", "fallback"}

\* CacheService.close; InMemoryCacheBackend.close clears the dict.
CacheClose ==
    /\ closed = {}
    /\ closed' = ClosedByClose(using_fallback)
    /\ mem_cache' = IF "fallback" \in closed'
                    THEN [k \in CacheKeys |-> NoEntry] ELSE mem_cache
    /\ UNCHANGED <<now, google_events, hype_records, using_fallback, primary_up, redis_data, last_op,
                   vaultVars, syncVars, procVars, call>>

\* The Redis server goes away or comes back.
RedisFlip ==
    /\ closed = {}
    /\ primary_up' = ~primary_up
    /\ UNCHANGED <<now, google_events, hype_records, using_fallback, redis_data, mem_cache, closed, last_op,
                   vaultVars, syncVars, procVars, call>>

InitCache ==
    /\ using_fallback = FALSE
    /\ primary_up = TRUE
    /\ redis_data = [k \in CacheKeys |-> NoEntry]
    /\ mem_cache = [k \in CacheKeys |-> NoEntry]
    /\ closed = {}
    /\ last_op = [seq |-> 0, op |-> "init", key |-> None, result |-> None,
                  pinged |-> FALSE, backend |-> None]

(***************************************************************************)
(* google_token_service.py                                                 *)
(***************************************************************************)
ACCESS_TOKEN_CACHE_TTL == 50      \* timedelta(minutes=50)

NoTime == -1               \* a datetime that is None
NoToken == -1              \* a token that is None

\* Fernet keys: the key of this process, and the key of an earlier
\* deployment (rows written under it no longer decrypt).
CurrentKey == "K1"
Nonces == {1, 2}           \* the random IV of one encryption

\* Fernet.encrypt: the ciphertext depends on the key, the IV and the token.
EncryptToken(key, iv, token) == <<key, iv, token>>

\* _decrypt_token accepting a token made under any key.
DecryptOkAnyKey(key, c) == TRUE

\* _decrypt_token: InvalidToken (-> GoogleTokenError) under another key.
DecryptOk(key, c) == c[1] = key
DecryptToken(key, c) == c[3]

\* Refresh tokens are numbers: 0 is the one the user's OAuth consent gave,
\* n > 0 the one the provider issued in its n-th exchange.  Access tokens
\* are numbered by the exchange that issued them.
OAuthToken == 0

TokenRows(tbl, u) == {r \in tbl : r.user_id = u}

\* A store_refresh_token whose INSERT uses no ON CONFLICT clause.
UpsertTokenNoConflict(tbl, u, c, t) ==
    tbl \cup {[user_id |-> u, refresh_token |-> c]}

\* INSERT ... ON CONFLICT (user_id) DO UPDATE of store_refresh_token
\* (updated_at, which the service writes and never reads, is left out).
UpsertToken(tbl, u, c, t) ==
    (tbl \ TokenRows(tbl, u)) \cup {[user_id |-> u, refresh_token |-> c]}

\* The cache test of get_access_token: the entry is there and
\* datetime.now(timezone.utc) < expires_at.
CacheHitAtExpiry(cache, u, t) == cache[u] # NoEntry /\ t <= EExpires(cache[u])

CacheHit(cache, u, t) == cache[u] # NoEntry /\ t < EExpires(cache[u])

\* SyncResult()
NoResult == [events_added |-> 0, events_updated |-> 0, events_deleted |-> 0,
             is_full_sync |-> FALSE]

NoPage == 0                \* a page token that is None
NoIso == <<>>              \* an ISO string that is None

\* A request coroutine that is not running: none yet, or the last one has
\* returned ("done") or raised ("failed").
Finished == {"idle", "done", "failed"}

\* Local variables of a request that is not running.
NoLocals ==
    [op |-> "none", user |-> "-", force_full |-> FALSE,
     state |-> NoIso, last_sync |-> NoTime, is_incremental |-> FALSE,
     access_token |-> NoToken, refresh_token |-> NoToken,
     new_refresh_token |-> NoToken,
     exchanges |-> 0, token_reads |-> 0,
     requests |-> <<>>, all_events |-> <<>>, fetched_at |-> NoTime,
     hype_id |-> 0,
     status |-> 0, err |-> "", result |-> NoResult]

\* Where get_access_token returns to: its caller in the sync service, or the
\* end of a direct call.
AfterToken(l) == IF l.op = "sync" THEN "fetch" ELSE "done"

\* What is left of a coroutine's locals once it has returned or raised: the
\* return value or the exception, the counts of what the call did and, of
\* a call that raised, the sync state it had read, the page requests it had
\* sent and, if it was the fetch that raised, the items of the pages
\* before.
Land(at, l) ==
    IF at \in {"done", "failed"}
    THEN [NoLocals EXCEPT !.op = l.op, !.user = l.user,
                          !.state = IF at = "failed" THEN l.state ELSE NoIso,
                          !.access_token = IF at = "done" THEN l.access_token
                                           ELSE NoToken,
                          !.new_refresh_token =
                              IF at = "done" THEN l.new_refresh_token
                              ELSE NoToken,
                          !.requests = IF at = "failed" THEN l.requests
                                       ELSE <<>>,
                          !.all_events = IF at = "failed" THEN l.all_events
                                         ELSE <<>>,
                          !.exchanges = l.exchanges,
                          !.token_reads = l.token_reads,
                          !.status = l.status, !.err = l.err,
                          !.result = l.result]
    ELSE l

\* Coroutine p goes on at `at` with locals l.
Goto(p, at, l) ==
    /\ pc' = [pc EXCEPT ![p] = at]
    /\ loc' = [loc EXCEPT ![p] = Land(at, l)]

\* A direct call of get_access_token (routers/calendar.py, use_cache=false).
GetAccessTokenCall(p) ==
    /\ pc[p] \in Finished
    /\ \E u \in Users :
         Goto(p, "token_cache", [NoLocals EXCEPT !.op = "token", !.user = u])
    /\ UNCHANGED <<now, google_events, hype_records, cacheVars, vaultVars, syncVars, call>>

\* get_access_token, "Check cache first": a live entry is returned at once.
GetAccessTokenCache(p) ==
    LET l == loc[p] IN
    /\ pc[p] = "token_cache"
    /\ IF CacheHit(access_token_cache, l.user, now)
       THEN Goto(p, AfterToken(l),
                 [l EXCEPT !.access_token = EValue(access_token_cache[l.user])])
       ELSE Goto(p, "token_read", l)
    /\ UNCHANGED <<now, google_events, hype_records, cacheVars, vaultVars, syncVars, call>>

\* The key of an earlier deployment (settings.token_encryption_key has been
\* changed since).
OldKey == "K0"

\* get_refresh_token as a function of the table and of whether the SELECT
\* worked: [err, value].  Any exception of the SELECT, that of
\* scalar_one_or_none() over several rows included, leaves row = None.
ReadRefreshToken(tbl, u, db_ok) ==
    LET rows == TokenRows(tbl, u) IN
    IF ~db_ok \/ Cardinality(rows) # 1
    THEN [err |-> "NoRefreshTokenError", value |-> NoToken]
    ELSE LET c == (CHOOSE r \in rows : TRUE).refresh_token IN
         IF DecryptOk(CurrentKey, c)
         THEN [err |-> None, value |-> DecryptToken(CurrentKey, c)]
         ELSE [err |-> "GoogleTokenError", value |-> NoToken]

\* get_refresh_token inside get_access_token.
GetRefreshToken(p) ==
    LET l == [loc[p] EXCEPT !.token_reads = 1] IN
    /\ pc[p] = "token_read"
    /\ \E db_ok \in BOOLEAN :
         LET read == ReadRefreshToken(user_google_tokens, l.user, db_ok) IN
         IF read.err = None
         THEN Goto(p, "token_exchange", [l EXCEPT !.refresh_token = read.value])
         ELSE Goto(p, "failed", [l EXCEPT !.err = read.err])
    /\ UNCHANGED <<now, google_events, hype_records, cacheVars, vaultVars, syncVars, call>>

\* What the token endpoint may answer to one POST: 200 without a refresh
\* token, with the one that was sent, or with a new one; invalid_grant;
\* another error.
ExchangeAnswers == {"ok", "ok_same", "ok_rotated", "invalid_grant", "error"}
NoRotation == {"ok", "ok_same", "invalid_grant", "error"}

\* An _exchange_refresh_token that takes every error answer for a revoked
\* refresh token.
ExchangeErrorAlwaysRevoked(a) == "NoRefreshTokenError"

\* _exchange_refresh_token on a status other than 200: the exception raised
\* for the JSON error body.
ExchangeError(a) ==
    IF a = "invalid_grant" THEN "NoRefreshTokenError" ELSE "TokenRefreshError"

\* A get_access_token that deletes the stored refresh token the provider
\* has declared revoked.
TokensOnExchangeErrorDeleting(tbl, u, a) ==
    IF a = "invalid_grant" THEN tbl \ TokenRows(tbl, u) ELSE tbl

\* What a failed exchange does to user_google_tokens: nothing; the
\* exception of _exchange_refresh_token leaves get_access_token at once.
TokensOnExchangeError(tbl, u, a) == tbl

\* A get_access_token that stores whatever refresh token the answer holds.
RotatedAlways(new, used) == new # NoToken

\* get_access_token: `if new_refresh_token and new_refresh_token !=
\* refresh_token`.
Rotated(new, used) == new # NoToken /\ new # used

\* _exchange_refresh_token and the rest of get_access_token up to its next
\* await: on 200 the access token is cached for ACCESS_TOKEN_CACHE_TTL; a
\* new refresh token that differs from the one used is stored next.
Exchange(p, answers) ==
    LET l == [loc[p] EXCEPT !.exchanges = 1] IN
    /\ pc[p] = "token_exchange"
    /\ \E a \in answers :
         CASE a \in {"ok", "ok_same", "ok_rotated"} ->
                LET n == issued + 1
                    new == CASE a = "ok" -> NoToken
                             [] a = "ok_same" -> l.refresh_token
                             [] a = "ok_rotated" -> n
                    rotate == Rotated(new, l.refresh_token)
                IN /\ issued < MaxIssued
                   /\ issued' = n
                   /\ access_token_cache' =
                        [access_token_cache EXCEPT ![l.user] =
                            Entry(n, now + ACCESS_TOKEN_CACHE_TTL)]
                   /\ Goto(p, IF rotate THEN "token_store" ELSE AfterToken(l),
                           [l EXCEPT !.access_token = n,
                                     !.new_refresh_token = new,
                                     !.status = 200])
                   /\ UNCHANGED user_google_tokens
           [] a \in {"invalid_grant", "error"} ->
                /\ Goto(p, "failed",
                        [l EXCEPT !.err = ExchangeError(a),
                                  !.status = IF a = "invalid_grant" THEN 400
                                             ELSE 500])
                /\ user_google_tokens' =
                      TokensOnExchangeError(user_google_tokens, l.user, a)
                /\ UNCHANGED <<access_token_cache, issued>>
    /\ UNCHANGED <<now, google_events, hype_records, cacheVars, syncVars, call>>

ExchangeRefreshToken(p) == Exchange(p, ExchangeAnswers)

\* The same against a provider that does not rotate refresh tokens.
ExchangeRefreshTokenNoRotation(p) == Exchange(p, NoRotation)

\* get_access_token, "If Google issued a new refresh token, update our
\* stored one": store_refresh_token, then return the access token; if the
\* database raises, store_refresh_token rolls back and raises
\* GoogleTokenError, which get_access_token does not catch.
StoreRotatedToken(p) ==
    /\ pc[p] = "token_store"
    /\ \/ /\ \E iv \in Nonces :
               user_google_tokens' =
                   UpsertToken(user_google_tokens, loc[p].user,
                               EncryptToken(CurrentKey, iv,
                                            loc[p].new_refresh_token),
                               now)
          /\ Goto(p, AfterToken(loc[p]), loc[p])
       \/ /\ UNCHANGED user_google_tokens
          /\ Goto(p, "failed", [loc[p] EXCEPT !.err = "GoogleTokenError"])
    /\ UNCHANGED <<now, google_events, hype_records, cacheVars, access_token_cache, issued, syncVars, call>>

\* store_refresh_token as the OAuth callback calls it (routers/auth.py).
StoreRefreshToken ==
    /\ \E u \in Users, iv \in Nonces :
         user_google_tokens' =
             UpsertToken(user_google_tokens, u,
                         EncryptToken(CurrentKey, iv, OAuthToken), now)
    /\ UNCHANGED <<now, google_events, hype_records, cacheVars, access_token_cache, issued, syncVars,
                   procVars, call>>

\* revoke_tokens, first half: the cached access token is popped.
RevokeTokensCall(p) ==
    /\ pc[p] \in Finished
    /\ \E u \in Users :
         /\ Goto(p, "revoke_delete", [NoLocals EXCEPT !.op = "revoke", !.user = u])
         /\ access_token_cache' = [access_token_cache EXCEPT ![u] = NoEntry]
    /\ UNCHANGED <<now, google_events, hype_records, cacheVars, user_google_tokens, issued, syncVars, call>>

\* A DELETE whose WHERE clause matches no row.
DeleteTokensNone(tbl, u) == tbl

\* DELETE FROM user_google_tokens WHERE user_id = ...
DeleteTokens(tbl, u) == tbl \ TokenRows(tbl, u)

\* revoke_tokens, second half: the row is deleted and the call returns, or
\* the database raises, the transaction is rolled back and the call raises
\* GoogleTokenError.
RevokeTokensDelete(p) ==
    /\ pc[p] = "revoke_delete"
    /\ \/ /\ user_google_tokens' = DeleteTokens(user_google_tokens, loc[p].user)
          /\ Goto(p, "done", loc[p])
       \/ /\ Goto(p, "failed", [loc[p] EXCEPT !.err = "GoogleTokenError"])
          /\ UNCHANGED user_google_tokens
    /\ UNCHANGED <<now, google_events, hype_records, cacheVars, access_token_cache, issued, syncVars, call>>

(***************************************************************************)
(* calendar_sync_service.py                                                *)
(***************************************************************************)
EventIds == {"e1", "e2"}

\* datetime.isoformat() and datetime.fromisoformat(s.replace("Z", "+00:00"))
\* on the timezone-aware instants the service writes.
IsoFormat(t) == <<"iso", t>>
FromIsoFormat(s) == s[2]

\* An item of the provider's events list.  start and end stand for the
\* dateTime strings: an instant >= 0 for a well-formed one, AllDay for an
\* item with a date only (no dateTime key), Malformed for a string that
\* fromisoformat rejects, NotAString for a dateTime that is JSON null or a
\* number.  summary None: the item has no summary.
AllDay == -1
Malformed == -2
NotAString == -3
Item(id, status, summary, start, end) ==
    [id |-> id, status |-> status, summary |-> summary, start |-> start,
     end |-> end]

EventRow(u, g, title, start, end, t, deleted) ==
    [user_id |-> u, google_event_id |-> g, title |-> title,
     start_time |-> start, end_time |-> end, synced_at |-> t,
     is_deleted |-> deleted]

\* The rows of calendar_events with the key (user_id, google_event_id).
KeyRows(tbl, u, g) ==
    {r \in BagToSet(tbl) : r.user_id = u /\ r.google_event_id = g}

RECURSIVE Copies(_, _)
Copies(tbl, rows) ==
    IF rows = {} THEN 0
    ELSE LET r == CHOOSE x \in rows : TRUE
         IN CopiesIn(r, tbl) + Copies(tbl, rows \ {r})

\* The table with every row r of `rows` rewritten to w[r] (an UPDATE).
Rewrite(tbl, rows, w) ==
    LET kept == [r \in BagToSet(tbl) \ rows |-> tbl[r]]
        image == {w[r] : r \in rows}
        moved == [x \in image |-> Copies(tbl, {r \in rows : w[r] = x})]
    IN kept (+) moved

\* A cancellation that deletes the rows: DELETE FROM calendar_events WHERE ...
MarkDeletedHard(tbl, u, g, t) ==
    LET rows == KeyRows(tbl, u, g)
    IN [r \in BagToSet(tbl) \ rows |-> tbl[r]]

\* UPDATE calendar_events SET is_deleted = true, synced_at = now
\* WHERE user_id = ... AND google_event_id = ...
MarkDeleted(tbl, u, g, t) ==
    LET rows == KeyRows(tbl, u, g)
    IN Rewrite(tbl, rows,
               [r \in rows |-> [r EXCEPT !.is_deleted = TRUE, !.synced_at = t]])

\* An insert that never meets the unique constraint: no conflict target.
UpsertEventNoConflict(tbl, row) == tbl (+) SetToBag({row})

\* An upsert that overwrites the fields and keeps the row's is_deleted.
UpsertEventKeepFlag(tbl, row) ==
    LET rows == KeyRows(tbl, row.user_id, row.google_event_id)
    IN IF rows = {}
       THEN tbl (+) SetToBag({row})
       ELSE Rewrite(tbl, rows,
                    [r \in rows |-> [row EXCEPT !.is_deleted = r.is_deleted]])

\* An upsert whose DO UPDATE leaves the stored fields as they were.
UpsertEventKeepOld(tbl, row) ==
    IF KeyRows(tbl, row.user_id, row.google_event_id) = {}
    THEN tbl (+) SetToBag({row})
    ELSE tbl

\* INSERT ... ON CONFLICT ON CONSTRAINT unique_user_google_event DO UPDATE
\* SET title, ..., start_time, end_time, synced_at, is_deleted = false.
\* description, location, attendees_count and etag are written by the same
\* statement, the same way as title.
UpsertEvent(tbl, row) ==
    LET rows == KeyRows(tbl, row.user_id, row.google_event_id)
    IN IF rows = {}
       THEN tbl (+) SetToBag({row})
       ELSE Rewrite(tbl, rows, [r \in rows |-> row])

\* What the loop of _store_events does with one item.  The try block
\* catches KeyError (no dateTime in end) and ValueError (fromisoformat);
\* `.replace` on a dateTime that is not a string raises AttributeError,
\* which nothing catches.
ItemAction(e) ==
    CASE e.id = None -> "skip"
      [] e.status = "cancelled" -> "delete"
      [] e.start = AllDay -> "skip"
      [] e.start = NotAString -> "raise"
      [] e.start = Malformed -> "skip"
      [] e.end = NotAString -> "raise"
      [] e.end < 0 -> "skip"
      [] OTHER -> "upsert"

Title(e) == IF e.summary = None THEN "Untitled Event" ELSE e.summary

RECURSIVE StoreLoop(_, _, _, _, _, _)
StoreLoop(tbl, res, u, events, is_incremental, t) ==
    IF events = <<>>
    THEN [table |-> tbl, result |-> res, raised |-> FALSE]
    ELSE LET e == Head(events)
             a == ItemAction(e)
         IN CASE a = "raise" ->
                   [table |-> tbl, result |-> res, raised |-> TRUE]
              [] a = "skip" ->
                   StoreLoop(tbl, res, u, Tail(events), is_incremental, t)
              [] a = "delete" ->
                   StoreLoop(MarkDeleted(tbl, u, e.id, t),
                             [res EXCEPT !.events_deleted = @ + 1],
                             u, Tail(events), is_incremental, t)
              [] a = "upsert" ->
                   StoreLoop(UpsertEvent(tbl,
                                 EventRow(u, e.id, Title(e), e.start, e.end,
                                          t, FALSE)),
                             IF is_incremental
                             THEN [res EXCEPT !.events_updated = @ + 1]
                             ELSE [res EXCEPT !.events_added = @ + 1],
                             u, Tail(events), is_incremental, t)

\* A _store_events that counts every upsert as added, whatever the mode.
StoreEventsCountingAdded(tbl, u, events, is_incremental, t) ==
    StoreLoop(tbl, [NoResult EXCEPT !.is_full_sync = ~is_incremental],
              u, events, FALSE, t)

\* _store_events: the table and the SyncResult after the commit, or
\* raised: the loop has raised and there was no commit.
StoreEvents(tbl, u, events, is_incremental, t) ==
    StoreLoop(tbl, [NoResult EXCEPT !.is_full_sync = ~is_incremental],
              u, events, is_incremental, t)

SyncRows(tbl, u) == {r \in tbl : r.user_id = u}

\* get_sync_state(...).get("last_sync"): the ISO string of the user's row,
\* or nothing.
GetSyncState(tbl, u) ==
    IF SyncRows(tbl, u) = {}
    THEN NoIso
    ELSE LET r == CHOOSE x \in SyncRows(tbl, u) : TRUE
         IN IF r.last_sync = NoTime THEN NoIso ELSE IsoFormat(r.last_sync)

MIN_SYNC_INTERVAL == 5     \* timedelta(minutes=5)

\* A should_sync that answers True from the interval on.
ShouldSyncAtInterval(state, t) ==
    state = NoIso \/ t - FromIsoFormat(state) >= MIN_SYNC_INTERVAL

\* should_sync: True without a last_sync, else
\* datetime.now(timezone.utc) - last_sync > MIN_SYNC_INTERVAL.
ShouldSync(state, t) ==
    state = NoIso \/ t - FromIsoFormat(state) > MIN_SYNC_INTERVAL

\* A call of should_sync.
ShouldSyncCall ==
    /\ \E u \in Users :
         call' = [op |-> "should_sync", user |-> u,
                  result |-> IF ShouldSync(GetSyncState(calendar_sync_state, u),
                                           now)
                             THEN "True" ELSE "False"]
    /\ UNCHANGED <<now, google_events, hype_records, cacheVars, vaultVars, syncVars, procVars>>

\* The clock in steps of a minute and of MIN_SYNC_INTERVAL.
MinuteTick ==
    /\ \E d \in {1, MIN_SYNC_INTERVAL} :
         now + d <= MaxTime * MIN_SYNC_INTERVAL /\ now' = now + d
    /\ UNCHANGED <<cacheVars, vaultVars, syncVars, google_events, hype_records,
                   procVars, call>>

\* A bug sync_calendar could have: force_full is not looked at.
SyncModeIgnoringForce(state, force_full) ==
    IF state # NoIso THEN FromIsoFormat(state) ELSE NoTime

\* sync_calendar, choosing the mode: the last_sync it syncs from, or None
\* for a full sync.
SyncMode(state, force_full) ==
    IF ~force_full /\ state # NoIso THEN FromIsoFormat(state) ELSE NoTime

\* sync_calendar(db, u, force_full) up to its first await's answer: the
\* sync state is read and the mode chosen.
StartSync(p, u, force_full) ==
    LET state == GetSyncState(calendar_sync_state, u)
        last_sync == SyncMode(state, force_full)
    IN Goto(p, "token_cache",
            [NoLocals EXCEPT !.op = "sync", !.user = u,
                             !.force_full = force_full,
                             !.state = state,
                             !.last_sync = last_sync,
                             !.is_incremental = last_sync # NoTime])

\* A call of sync_calendar (POST /calendar/sync).
SyncCalendar(p) ==
    /\ pc[p] \in Finished
    /\ \E u \in Users, force_full \in BOOLEAN : StartSync(p, u, force_full)
    /\ UNCHANGED <<now, google_events, hype_records, cacheVars, vaultVars, syncVars, call>>

\* INSERT ... ON CONFLICT (user_id) DO UPDATE of update_sync_state
UpsertSyncState(tbl, u, t) ==
    (tbl \ SyncRows(tbl, u)) \cup
        {[user_id |-> u, last_sync |-> t, updated_at |-> t]}

\* A failed fetch or store that writes the sync state all the same.
CursorOnFailureAdvanced(tbl, u, t) == UpsertSyncState(tbl, u, t)

\* What a failed fetch or store does to calendar_sync_state: nothing.
CursorOnFailure(tbl, u, t) == tbl

\* The request parameters _fetch_events_from_google builds for one request:
\* updatedMin and showDeleted when updated_min is given, pageToken when
\* there is one.
PageParams(updated_min, page_token) ==
    [updatedMin |-> IF updated_min # NoTime THEN IsoFormat(updated_min) ELSE NoIso,
     showDeleted |-> updated_min # NoTime,
     pageToken |-> page_token]

\* The items a page of the provider may hold in this model: two versions of
\* e1 and its cancellation,
TimedItems ==
    {Item("e1", "confirmed", "A", 25, 50), Item("e1", "confirmed", "B", 25, 50),
     Item("e1", "cancelled", None, 25, 50)}

\* and items _store_events writes nothing for: an all-day item, an item whose
\* start does not parse, and a cancelled item without an id.
SkippedItems ==
    {Item("e1", "confirmed", "A", AllDay, AllDay),
     Item("e1", "confirmed", "A", Malformed, 50),
     Item(None, "cancelled", None, 25, 50)}

\* and an item _store_events raises on: its dateTime is not a string.
RaisingItems == {Item("e1", "confirmed", "A", NotAString, 50)}

PageItems == TimedItems \cup SkippedItems \cup RaisingItems
Pages == {<<>>} \cup {<<i>> : i \in PageItems}

\* HTTP statuses of the events endpoint other than 200; 0 stands for a
\* request that timed out.
FetchFailures == {401, 403, 429, 500, 0}

Answer(status, items, next) == [status |-> status, items |-> items, next |-> next]

\* What the provider may answer to the requests of one fetch: pages that
\* name a next page, then a last page or a failure.
LastAnswers ==
    {Answer(200, pg, NoPage) : pg \in Pages}
      \cup {Answer(st, <<>>, NoPage) : st \in FetchFailures}

RECURSIVE AnswersFrom(_)
AnswersFrom(i) ==
    {<<a>> : a \in LastAnswers}
      \cup (IF i < MaxPages
            THEN {<<Answer(200, pg, i)>> \o rest :
                      pg \in Pages, rest \in AnswersFrom(i + 1)}
            ELSE {})

\* A _fetch_events_from_google with an exception of its own for 429.
FetchErrorRateLimited(status) ==
    CASE status = 401 -> "TokenRefreshError"
      [] status = 429 -> "RateLimitedError"
      [] status = 0 -> "TimeoutException"
      [] OTHER -> "CalendarSyncError"

\* The exception _fetch_events_from_google ends with on a failed request.
FetchError(status) ==
    CASE status = 401 -> "TokenRefreshError"
      [] status = 0 -> "TimeoutException"
      [] OTHER -> "CalendarSyncError"

\* An iteration that puts the items of a page before those gathered so far.
FetchIterationPrepending(updated_min, a, page_token, all_events, requests) ==
    LET sent == Append(requests, PageParams(updated_min, page_token))
    IN IF a.status # 200
       THEN [status |-> a.status, err |-> FetchError(a.status),
             all_events |-> all_events, requests |-> sent,
             page_token |-> page_token, more |-> FALSE]
       ELSE [status |-> 200, err |-> "",
             all_events |-> a.items \o all_events, requests |-> sent,
             page_token |-> a.next, more |-> a.next # NoPage]

\* One iteration of the `while True` of _fetch_events_from_google: the
\* request for page_token is sent and answered with a.  A status other than
\* 200 raises; otherwise the items are appended, page_token becomes the
\* answer's nextPageToken, and the loop goes on (more) if there is one.
FetchIteration(updated_min, a, page_token, all_events, requests) ==
    LET sent == Append(requests, PageParams(updated_min, page_token))
    IN IF a.status # 200
       THEN [status |-> a.status, err |-> FetchError(a.status),
             all_events |-> all_events, requests |-> sent,
             page_token |-> page_token, more |-> FALSE]
       ELSE [status |-> 200, err |-> "",
             all_events |-> all_events \o a.items, requests |-> sent,
             page_token |-> a.next, more |-> a.next # NoPage]

\* The loop of _fetch_events_from_google over the provider's answers.
RECURSIVE FetchLoop(_, _, _, _, _)
FetchLoop(updated_min, answers, page_token, all_events, requests) ==
    LET it == FetchIteration(updated_min, Head(answers), page_token,
                             all_events, requests)
    IN IF it.more /\ Tail(answers) # <<>>
       THEN FetchLoop(updated_min, Tail(answers), it.page_token,
                      it.all_events, it.requests)
       ELSE [status |-> it.status, err |-> it.err,
             all_events |-> it.all_events, requests |-> it.requests]

\* _fetch_events_from_google after get_access_token: the page requests of
\* one fetch and their answers.  The requests read and write nothing that
\* another coroutine shares, so the loop is one step.  A failed request
\* raises; nothing else is done, whatever the status.
Fetch(p, answers) ==
    LET l == loc[p] IN
    /\ pc[p] = "fetch"
    /\ \E ans \in answers :
         LET r == FetchLoop(l.last_sync, ans, NoPage, <<>>, <<>>) IN
         IF r.status = 200
         THEN /\ Goto(p, "store", [l EXCEPT !.all_events = r.all_events,
                                            !.requests = r.requests,
                                            !.fetched_at = now,
                                            !.status = 200])
              /\ UNCHANGED calendar_sync_state
         ELSE /\ Goto(p, "failed", [l EXCEPT !.all_events = r.all_events,
                                             !.requests = r.requests,
                                             !.status = r.status,
                                             !.err = r.err])
              /\ calendar_sync_state' =
                    CursorOnFailure(calendar_sync_state, l.user, now)
    /\ UNCHANGED <<now, google_events, hype_records, cacheVars, vaultVars, calendar_events, call>>

FetchEvents(p) == Fetch(p, AnswersFrom(1))

\* The same against a provider that answers every page request with 200
\* and with items _store_events writes.
FetchEventsOk(p) ==
    Fetch(p, {ans \in AnswersFrom(1) :
                \A i \in DOMAIN ans :
                   /\ ans[i].status = 200
                   /\ \A k \in DOMAIN ans[i].items :
                         ans[i].items[k] \in TimedItems})

\* The provider's calendar holds at most the event e1, from 25 to 50: it is
\* created with the summary "A", may be changed to "B" and may be
\* cancelled.  Every change stamps the resource's `updated` with the time.
ProviderChange ==
    /\ \/ /\ google_events = {}
          /\ google_events' = {[id |-> "e1", summary |-> "A",
                                status |-> "confirmed", updated |-> now]}
       \/ \E e \in google_events :
             /\ e.status = "confirmed"
             /\ \/ /\ e.summary = "A"
                   /\ google_events' =
                         {[e EXCEPT !.summary = "B", !.updated = now]}
                \/ google_events' =
                      {[e EXCEPT !.status = "cancelled", !.updated = now]}
    /\ UNCHANGED <<now, cacheVars, vaultVars, syncVars, hype_records,
                   procVars, call>>

\* What the events endpoint lists for a request: cancelled events only with
\* showDeleted, and with updatedMin the events whose `updated` is not
\* earlier.  (timeMin and timeMax of the request, 30 days back and 90 days
\* ahead, hold every event of this calendar.)
Listing(events, req) ==
    LET listed == {e \in events :
                      /\ req.showDeleted \/ e.status # "cancelled"
                      /\ \/ req.updatedMin = NoIso
                         \/ e.updated >= FromIsoFormat(req.updatedMin)}
    IN IF listed = {} THEN <<>>
       ELSE LET e == CHOOSE x \in listed : TRUE
            IN <<Item(e.id, e.status,
                      IF e.status = "cancelled" THEN None ELSE e.summary,
                      25, 50)>>

\* _fetch_events_from_google against this calendar: one request, answered
\* with the listing as it is at that moment.
FetchListing(p) ==
    Fetch(p, {<<Answer(200, Listing(google_events,
                                    PageParams(loc[p].last_sync, NoPage)),
                       NoPage)>>})

\* _store_events as sync_calendar calls it.  The statements run in one
\* transaction, which the commit at the end of _store_events makes visible;
\* or the loop or the database raises and nothing is written.
StoreFetched(p) ==
    LET l == loc[p] IN
    /\ pc[p] = "store"
    /\ \/ LET r == StoreEvents(calendar_events, l.user, l.all_events,
                               l.is_incremental, now)
          IN IF r.raised
             THEN /\ Goto(p, "failed", [l EXCEPT !.err = "AttributeError",
                                                 !.all_events = <<>>])
                  /\ calendar_sync_state' =
                        CursorOnFailure(calendar_sync_state, l.user, now)
                  /\ UNCHANGED calendar_events
             ELSE /\ calendar_events' = r.table
                  /\ Goto(p, "update", [l EXCEPT !.result = r.result,
                                                 !.all_events = <<>>,
                                                 !.requests = <<>>])
                  /\ UNCHANGED calendar_sync_state
       \/ /\ Goto(p, "failed", [l EXCEPT !.err = "SQLAlchemyError",
                                         !.all_events = <<>>])
          /\ calendar_sync_state' =
                CursorOnFailure(calendar_sync_state, l.user, now)
          /\ UNCHANGED calendar_events
    /\ UNCHANGED <<now, google_events, hype_records, cacheVars, vaultVars, call>>

\* sync_calendar, "Update sync state": the last statement before the return.
UpdateSyncState(p) ==
    LET l == loc[p] IN
    /\ pc[p] = "update"
    /\ \/ /\ calendar_sync_state' =
                UpsertSyncState(calendar_sync_state, l.user, now)
          /\ Goto(p, "done", l)
       \/ /\ Goto(p, "failed", [l EXCEPT !.err = "SQLAlchemyError"])
          /\ UNCHANGED calendar_sync_state
    /\ UNCHANGED <<now, google_events, hype_records, cacheVars, vaultVars, calendar_events, call>>

(***************************************************************************)
(* _store_events and get_cached_events called directly, over the rows of   *)
(* two users.                                                              *)
(***************************************************************************)
Owners == {"u1", "u2"}

\* The items a batch may hold: two versions of e1, its cancellation, an
\* item without a summary, an all-day item, an item whose start does not
\* parse, and an item without an id.
StoreItems ==
    {Item("e1", "confirmed", "A", 0, 50), Item("e1", "confirmed", "B", 25, 50),
     Item("e1", "cancelled", None, 25, 50),
     Item("e2", "confirmed", None, 25, 75),
     Item("e2", "confirmed", "C", AllDay, AllDay),
     Item("e2", "confirmed", "C", Malformed, 75),
     Item(None, "confirmed", "D", 0, 50)}

RECURSIVE SeqsUpTo(_, _)
SeqsUpTo(S, n) ==
    IF n = 0 THEN {<<>>}
    ELSE SeqsUpTo(S, n - 1)
           \cup {Append(q, x) : q \in {r \in SeqsUpTo(S, n - 1) : Len(r) = n - 1},
                                x \in S}

Batches == SeqsUpTo(StoreItems, MaxBatch)

\* A call of _store_events with a batch of items.  is_incremental selects
\* the counter of the SyncResult and nothing of what is written, so the
\* call is made with is_incremental false.
StoreBatch ==
    /\ \E u \in Owners, events \in Batches :
         LET r == StoreEvents(calendar_events, u, events, FALSE, now)
         IN calendar_events' = IF r.raised THEN calendar_events ELSE r.table
    /\ UNCHANGED <<now, google_events, hype_records, cacheVars, vaultVars, calendar_sync_state, procVars,
                   call>>

\* timedelta(hours=24), in minutes
DefaultWindow == 1440

\* The WHERE clause of get_cached_events.
CachedFilterByStart(r, u, time_min, time_max) ==
    /\ r.user_id = u
    /\ ~r.is_deleted
    /\ r.start_time >= time_min
    /\ r.start_time <= time_max

CachedFilter(r, u, time_min, time_max) ==
    /\ r.user_id = u
    /\ ~r.is_deleted
    /\ r.end_time > time_min
    /\ r.start_time <= time_max

\* ORDER BY start_time: every order of the rows that is ascending in
\* start_time (the order of rows with equal start_time is the database's).
RECURSIVE OrderByStart(_)
OrderByStart(rows) ==
    IF rows = {} THEN {<<>>}
    ELSE UNION {{<<r>> \o rest : rest \in OrderByStart(rows \ {r})} :
                  r \in {x \in rows : \A y \in rows : x.start_time <= y.start_time}}

\* LIMIT max_results
Limit(rows, max_results) ==
    SubSeq(rows, 1, IF Len(rows) < max_results THEN Len(rows) ELSE max_results)

\* The event rows get_cached_events may return.
CachedEvents(tbl, u, time_min, time_max, max_results, t) ==
    LET tmin == IF time_min = NoTime THEN t ELSE time_min
        tmax == IF time_max = NoTime THEN tmin + DefaultWindow ELSE time_max
        rows == {r \in BagToSet(tbl) : CachedFilter(r, u, tmin, tmax)}
    IN {Limit(q, max_results) : q \in OrderByStart(rows)}

WindowStarts == {NoTime, 25, 50}
WindowEnds == {NoTime, 0, 25}
ResultLimits == {1, 2}

\* A latest-hype join that takes the oldest ready record of an event.
LatestHypeOldest(tbl, u, ids, g) ==
    LET ready == {h \in tbl : /\ h.user_id = u
                              /\ h.google_event_id \in ids
                              /\ h.status \in {"text_ready", "audio_ready"}}
        mine == {h \in ready : h.google_event_id = g}
        first == {h \in mine : \A k \in mine : h.created_at <= k.created_at}
    IN IF mine = {} THEN {NoEntry}
       ELSE {<<h.hype_text, h.audio_url>> : h \in first}

\* get_cached_events, the latest hype of the event g among the returned
\* events ids: the user's text_ready and audio_ready records of those
\* events are read ORDER BY created_at DESC and the first of each event is
\* kept (any of them, if several share the greatest created_at).  The
\* LatestHypeData is the pair (hype_text, audio_url); manager_style is
\* copied beside them.  latest_hype_map.get(g) is None without a record.
LatestHype(tbl, u, ids, g) ==
    LET ready == {h \in tbl : /\ h.user_id = u
                              /\ h.google_event_id \in ids
                              /\ h.status \in {"text_ready", "audio_ready"}}
        mine == {h \in ready : h.google_event_id = g}
        first == {h \in mine : \A k \in mine : k.created_at <= h.created_at}
    IN IF mine = {} THEN {NoEntry}
       ELSE {<<h.hype_text, h.audio_url>> : h \in first}

\* A call of get_cached_events with arguments from the given sets: events
\* are the rows returned, latest_hype the latest_hype of each.
GetCachedEventsOf(starts, ends, limits) ==
    /\ \E u \in Owners, time_min \in starts, time_max \in ends,
          max_results \in limits :
         \E events \in CachedEvents(calendar_events, u, time_min, time_max,
                                    max_results, now) :
            LET ids == {events[i].google_event_id : i \in DOMAIN events}
                may == [i \in DOMAIN events |->
                          LatestHype(hype_records, u, ids,
                                     events[i].google_event_id)]
            IN \E latest_hype \in [DOMAIN events ->
                                       UNION {may[i] : i \in DOMAIN events}] :
                  /\ \A i \in DOMAIN events : latest_hype[i] \in may[i]
                  /\ call' = [op |-> "get_cached_events", user |-> u,
                              time_min |-> time_min, time_max |-> time_max,
                              max_results |-> max_results, events |-> events,
                              latest_hype |-> latest_hype]
    /\ UNCHANGED <<now, google_events, hype_records, cacheVars, vaultVars, syncVars, procVars>>

\* A call of get_cached_events.
GetCachedEvents == GetCachedEventsOf(WindowStarts, WindowEnds, ResultLimits)

(***************************************************************************)
(* GET /calendar/events with use_cache (routers/calendar.py).  `call` is   *)
(* the request: phase "sync" while the auto-sync it started runs, "direct" *)
(* while it fetches from Google directly, "returned" once it has answered. *)
(***************************************************************************)
ReadCall(u, max_results, phase, synced, status, count) ==
    [op |-> "get_calendar_events", user |-> u, max_results |-> max_results,
     phase |-> phase, synced |-> synced, status |-> status, count |-> count]

ReadInFlight == call.op = "get_calendar_events" /\ call.phase # "returned"

\* `if not cached_events and not last_sync`
AutoSync(events, state) == events = <<>> /\ state = NoIso

\* get_calendar_events up to the answer or to the auto-sync it starts:
\* the cached events of the next 24 hours and the sync state are read.
GetCalendarEvents(p) ==
    /\ pc[p] \in Finished
    /\ ~ReadInFlight
    /\ \E u \in Users, max_results \in ResultLimits :
         \E events \in CachedEvents(calendar_events, u, NoTime, NoTime,
                                    max_results, now) :
            IF AutoSync(events, GetSyncState(calendar_sync_state, u))
            THEN /\ StartSync(p, u, TRUE)
                 /\ call' = ReadCall(u, max_results, "sync", "True", 0, 0)
            ELSE /\ call' = ReadCall(u, max_results, "returned", "False", 200, Len(events))
                 /\ UNCHANGED procVars
    /\ UNCHANGED <<now, google_events, hype_records, cacheVars, vaultVars, syncVars>>

\* get_calendar_events after its sync_calendar: NoRefreshTokenError and
\* TokenRefreshError become HTTP 401; after CalendarSyncError, as after a
\* sync that returned, the cache is read again and answered; SQLAlchemyError
\* falls through to the direct fetch, which starts with get_access_token;
\* any other exception goes on to the framework (HTTP 500).
AutoSyncReturn(p) ==
    LET l == loc[p] IN
    /\ call.op = "get_calendar_events" /\ call.phase = "sync"
    /\ pc[p] \in {"done", "failed"}
    /\ CASE pc[p] = "done" \/ l.err = "CalendarSyncError" ->
              /\ \E events \in CachedEvents(calendar_events, l.user, NoTime,
                                            NoTime, call.max_results, now) :
                    call' = ReadCall(l.user, call.max_results, "returned", "True", 200, Len(events))
              /\ UNCHANGED procVars
         [] l.err \in {"NoRefreshTokenError", "TokenRefreshError"} ->
              /\ call' = ReadCall(l.user, call.max_results, "returned", "True", 401, 0)
              /\ UNCHANGED procVars
         [] l.err = "SQLAlchemyError" ->
              /\ call' = ReadCall(l.user, call.max_results, "direct", "True", 0, 0)
              /\ Goto(p, "token_cache",
                      [NoLocals EXCEPT !.op = "token", !.user = l.user])
         [] OTHER ->
              /\ call' = ReadCall(l.user, call.max_results, "returned", "True", 500, 0)
              /\ UNCHANGED procVars
    /\ UNCHANGED <<now, google_events, hype_records, cacheVars, vaultVars, syncVars>>

\* The statuses the direct request to the events endpoint is answered with,
\* and the HTTP status get_calendar_events answers with for each.
DirectAnswers == {200, 401, 403, 500}

\* get_calendar_events, the direct fetch after get_access_token: one GET
\* to the events endpoint, nothing is written.
DirectReturn(p) ==
    LET l == loc[p] IN
    /\ call.op = "get_calendar_events" /\ call.phase = "direct"
    /\ pc[p] \in {"done", "failed"}
    /\ IF pc[p] = "done"
       THEN \E status \in DirectAnswers :
              call' = ReadCall(l.user, call.max_results, "returned", "True",
                               IF status = 500 THEN 502 ELSE status, 0)
       ELSE call' = ReadCall(l.user, call.max_results, "returned", "True",
                             IF l.err \in {"NoRefreshTokenError",
                                           "TokenRefreshError"}
                             THEN 401 ELSE 500, 0)
    /\ UNCHANGED <<now, google_events, hype_records, cacheVars, vaultVars, syncVars, procVars>>

(***************************************************************************)
(* _fetch_events_from_google request by request, against a provider that   *)
(* keeps the pages of its listing under page tokens.  `call` is the fetch: *)
(* the provider's pages, the locals of the loop, the responses received    *)
(* so far, and phase "loop", "returned" or "raised".                       *)
(***************************************************************************)
\* What the provider may keep under one page token: a page of at most one
\* item, with or without a nextPageToken (which may name any page, itself
\* included), or a failure.
PageAnswers ==
    {Answer(200, pg, nx) : pg \in {<<>>} \cup {<<i>> : i \in TimedItems},
                           nx \in 0..(MaxPages - 1)}
      \cup {Answer(st, <<>>, NoPage) : st \in FetchFailures}

\* The provider's listing: page token -> answer; NoPage names the first page.
ProviderPageTables == [0..(MaxPages - 1) -> PageAnswers]

PagedFetch(updated_min, pages, phase, page_token, all_events, reqs, resps, err) ==
    [op |-> "_fetch_events_from_google", updated_min |-> updated_min,
     pages |-> pages, phase |-> phase, page_token |-> page_token,
     all_events |-> all_events, requests |-> reqs,
     responses |-> resps, err |-> err]

FetchInFlight == call.op = "_fetch_events_from_google" /\ call.phase = "loop"

\* _fetch_events_from_google up to its loop: all_events = [], page_token =
\* None.  A behaviour follows one fetch.
FetchCall ==
    /\ call = NoCall
    /\ \E updated_min \in {NoTime, 0}, pages \in ProviderPageTables :
         call' = PagedFetch(updated_min, pages, "loop", NoPage, <<>>, <<>>,
                            <<>>, "")
    /\ UNCHANGED <<now, google_events, hype_records, cacheVars, vaultVars, syncVars, procVars>>

\* One iteration of the loop: the provider answers the request with the
\* page kept under the page token the request carries.  The loop is
\* followed for at most MaxPages + 1 requests.
FetchPage ==
    /\ FetchInFlight
    /\ Len(call.requests) <= MaxPages
    /\ LET req == PageParams(call.updated_min, call.page_token)
           a == call.pages[req.pageToken]
           it == FetchIteration(call.updated_min, a, call.page_token,
                                call.all_events, call.requests)
       IN call' = PagedFetch(call.updated_min, call.pages,
                             IF it.status # 200 THEN "raised"
                             ELSE IF it.more THEN "loop" ELSE "returned",
                             it.page_token, it.all_events, it.requests,
                             Append(call.responses, a), it.err)
    /\ UNCHANGED <<now, google_events, hype_records, cacheVars, vaultVars, syncVars, procVars>>

(***************************************************************************)
(* SpecCache: the cache service alone.                                     *)
(***************************************************************************)
InitRest ==
    /\ now = 0
    /\ access_token_cache = [u \in Users |-> NoEntry]
    /\ issued = 0
    /\ calendar_sync_state = {}
    /\ calendar_events = EmptyBag
    /\ google_events = {}
    /\ hype_records = {}
    /\ pc = [p \in Procs |-> "idle"]
    /\ loc = [p \in Procs |-> NoLocals]
    /\ call = NoCall

InitCacheSpec == InitCache /\ InitRest /\ user_google_tokens = {}

NextCache == Tick \/ CacheGet \/ CacheSet \/ CacheDelete \/ CacheClose \/ RedisFlip

SpecCache == InitCacheSpec /\ [][NextCache]_vars

(***************************************************************************)
(* Spec: sync requests of a user, one after the other, against a provider  *)
(* that does not rotate refresh tokens.  The user has completed OAuth or   *)
(* has not.                                                                *)
(***************************************************************************)
Init ==
    /\ InitCache
    /\ InitRest
    /\ \E tbl \in {{}, UpsertToken({}, "u1",
                                   EncryptToken(CurrentKey, 1, OAuthToken), 0)} :
         user_google_tokens = tbl

SyncRequest(p) ==
    \/ SyncCalendar(p)
    \/ GetAccessTokenCache(p)
    \/ GetRefreshToken(p)
    \/ ExchangeRefreshTokenNoRotation(p)
    \/ FetchEvents(p)
    \/ StoreFetched(p)
    \/ UpdateSyncState(p)

Next == Tick \/ SyncRequest("p1")

Spec == Init /\ [][Next]_vars

(***************************************************************************)
(* SpecRace: two sync requests of the same user running concurrently.      *)
(***************************************************************************)
\* The user's access token was cached by an earlier request and is live.
InitRace ==
    /\ InitCache
    /\ now = 0
    /\ user_google_tokens =
           UpsertToken({}, "u1", EncryptToken(CurrentKey, 1, OAuthToken), 0)
    /\ issued = 1
    /\ access_token_cache =
           [u \in Users |-> Entry(1, ACCESS_TOKEN_CACHE_TTL)]
    /\ calendar_sync_state = {}
    /\ calendar_events = EmptyBag
    /\ google_events = {}
    /\ hype_records = {}
    /\ pc = [p \in Procs |-> "idle"]
    /\ loc = [p \in Procs |-> NoLocals]
    /\ call = NoCall

RaceRequest(p) ==
    \/ SyncCalendar(p)
    \/ GetAccessTokenCache(p)
    \/ FetchEventsOk(p)
    \/ StoreFetched(p)
    \/ UpdateSyncState(p)

NextRace == \E p \in Procs : RaceRequest(p)

SpecRace == InitRace /\ [][NextRace]_vars

(***************************************************************************)
(* SpecVault: concurrent requests against the token service alone.         *)
(***************************************************************************)
VaultRequest(p) ==
    \/ GetAccessTokenCall(p)
    \/ GetAccessTokenCache(p)
    \/ GetRefreshToken(p)
    \/ ExchangeRefreshToken(p)
    \/ StoreRotatedToken(p)
    \/ RevokeTokensCall(p)
    \/ RevokeTokensDelete(p)

NextVault == Tick \/ StoreRefreshToken \/ (\E p \in Procs : VaultRequest(p))

InitVault == InitCache /\ InitRest /\ user_google_tokens = {}

SpecVault == InitVault /\ [][NextVault]_vars

(***************************************************************************)
(* SpecRead: GET /calendar/events requests of a user, one after the other, *)
(* each with the auto-sync it may start.                                   *)
(***************************************************************************)
ReadRequest(p) ==
    \/ GetCalendarEvents(p)
    \/ GetAccessTokenCache(p)
    \/ GetRefreshToken(p)
    \/ ExchangeRefreshTokenNoRotation(p)
    \/ FetchEvents(p)
    \/ StoreFetched(p)
    \/ UpdateSyncState(p)
    \/ AutoSyncReturn(p)
    \/ DirectReturn(p)

NextRead == Tick \/ ReadRequest("p1")

SpecRead == Init /\ [][NextRead]_vars

(***************************************************************************)
(* SpecToken: calls of the token service by one caller, one after the      *)
(* other, while the OAuth callback may store a refresh token at any time.  *)
(***************************************************************************)
NextToken == Tick \/ StoreRefreshToken \/ VaultRequest("p1")

SpecToken == InitVault /\ [][NextToken]_vars

(***************************************************************************)
(* SpecCred: store_refresh_token, get_refresh_token and has_refresh_token  *)
(* called directly, one call at a time, for two users.  `call` holds the   *)
(* last call: its arguments, whether the database answered it, and what it *)
(* returned or raised.  The table may start with a row that a deployment   *)
(* with the earlier encryption key wrote.                                  *)
(***************************************************************************)
CredTokens == {OAuthToken, OAuthToken + 1}

CredCall(op, u, token, db_ok, err, value, found) ==
    [op |-> op, user |-> u, token |-> token,
     db |-> IF db_ok THEN "ok" ELSE "down",
     err |-> err, value |-> value, found |-> found]

\* store_refresh_token: the token is encrypted and upserted; if the
\* database raises, the transaction is rolled back and GoogleTokenError is
\* raised.
StoreRefreshTokenCall ==
    /\ \E u \in Owners, token \in CredTokens, iv \in Nonces, db_ok \in BOOLEAN :
         IF db_ok
         THEN /\ user_google_tokens' =
                     UpsertToken(user_google_tokens, u,
                                 EncryptToken(CurrentKey, iv, token), now)
              /\ call' = CredCall("store_refresh_token", u, token, db_ok,
                                  None, NoToken, "-")
         ELSE /\ UNCHANGED user_google_tokens
              /\ call' = CredCall("store_refresh_token", u, token, db_ok,
                                  "GoogleTokenError", NoToken, "-")
    /\ UNCHANGED <<now, google_events, hype_records, cacheVars, access_token_cache, issued, syncVars, procVars>>

\* get_refresh_token called directly.
GetRefreshTokenCall ==
    /\ \E u \in Owners, db_ok \in BOOLEAN :
         LET read == ReadRefreshToken(user_google_tokens, u, db_ok) IN
         call' = CredCall("get_refresh_token", u, NoToken, db_ok,
                          read.err, read.value, "-")
    /\ UNCHANGED <<now, google_events, hype_records, cacheVars, vaultVars, syncVars, procVars>>

\* has_refresh_token: True if get_refresh_token returns, False if it raises
\* NoRefreshTokenError; any other exception of get_refresh_token goes on to
\* the caller.
HasRefreshToken(read) ==
    CASE read.err = None -> [err |-> None, found |-> "True"]
      [] read.err = "NoRefreshTokenError" -> [err |-> None, found |-> "False"]
      [] OTHER -> [err |-> read.err, found |-> "-"]

HasRefreshTokenCall ==
    /\ \E u \in Owners, db_ok \in BOOLEAN :
         LET has == HasRefreshToken(ReadRefreshToken(user_google_tokens, u, db_ok)) IN
         call' = CredCall("has_refresh_token", u, NoToken, db_ok,
                          has.err, NoToken, has.found)
    /\ UNCHANGED <<now, google_events, hype_records, cacheVars, vaultVars, syncVars, procVars>>

InitCred ==
    /\ InitCache /\ InitRest
    /\ user_google_tokens \in
          SUBSET {[user_id |-> "u1",
                   refresh_token |-> EncryptToken(OldKey, 1, OAuthToken)]}

NextCred == StoreRefreshTokenCall \/ GetRefreshTokenCall \/ HasRefreshTokenCall

SpecCred == InitCred /\ [][NextCred]_vars

(***************************************************************************)
(* SpecStore: _store_events and get_cached_events called one at a time.    *)
(***************************************************************************)
InitStore == InitCache /\ InitRest /\ user_google_tokens = {}

NextStore == StoreBatch \/ GetCachedEvents

SpecStore == InitStore /\ [][NextStore]_vars

(***************************************************************************)
(* SpecProvider: sync requests of a user, one after the other, against a   *)
(* calendar that changes at the provider.  SpecProviderRace: two sync      *)
(* requests of the user interleaved, against the same.  The user's access  *)
(* token is cached at the start.                                           *)
(***************************************************************************)
ProviderRequest(p) ==
    \/ SyncCalendar(p)
    \/ GetAccessTokenCache(p)
    \/ FetchListing(p)
    \/ StoreFetched(p)
    \/ UpdateSyncState(p)

NextProvider ==
    \/ Tick
    \/ ProviderChange
    \/ ProviderRequest("p1")
    \/ GetRefreshToken("p1")
    \/ ExchangeRefreshTokenNoRotation("p1")

SpecProvider == InitRace /\ [][NextProvider]_vars

NextProviderRace == ProviderChange \/ (\E p \in Procs : ProviderRequest(p))

SpecProviderRace == InitRace /\ [][NextProviderRace]_vars

(***************************************************************************)
(* SpecPolicy: should_sync and sync requests of a user whose access token  *)
(* is cached and whose calendar is empty, on a clock of minutes.           *)
(***************************************************************************)
NextPolicy == MinuteTick \/ ShouldSyncCall \/ ProviderRequest("p1")

SpecPolicy == InitRace /\ [][NextPolicy]_vars

(***************************************************************************)
(* SpecFetch: fetches against a paged provider, one request at a time.     *)
(* The event loop runs a coroutine whose request has been answered, so the *)
(* iteration is weakly fair.                                               *)
(***************************************************************************)
NextFetch == FetchCall \/ FetchPage

SpecFetch == InitStore /\ [][NextFetch]_vars /\ WF_vars(FetchPage)

(***************************************************************************)
(* C1: the fallback is a one-way latch.  Once _using_fallback is set it     *)
(* stays set, and from then on no operation pings the primary or is served *)
(* by it, whatever the primary would answer.                               *)
(***************************************************************************)
C1_FallbackOneWay ==
    [][using_fallback =>
         /\ using_fallback'
         /\ (last_op' # last_op =>
               /\ ~last_op'.pinged
               /\ last_op'.backend = "fallback")]_vars

\* C1 witness: the service has switched, the primary answers again, and an
\* operation has been served by the fallback without a ping.
C1_Witness ==
    /\ using_fallback
    /\ primary_up
    /\ last_op.op = "get"
    /\ ~last_op.pinged
    /\ last_op.backend = "fallback"

(***************************************************************************)
(* C2: the sync cursor advances only on full success.  A sync call that    *)
(* has raised, at the token, at a page request or in the store, finds the  *)
(* user's sync state (row presence and last_sync) as the call read it at   *)
(* its start; and the only step that writes calendar_sync_state is the     *)
(* last step of a sync call that then returns.                             *)
(***************************************************************************)
C2_CursorOnlyOnSuccess ==
    /\ [](\A p \in Procs :
            (pc[p] = "failed" /\ loc[p].op = "sync") =>
                GetSyncState(calendar_sync_state, loc[p].user) = loc[p].state)
    /\ [][calendar_sync_state' # calendar_sync_state =>
            \E p \in Procs :
               /\ pc[p] = "update"
               /\ pc'[p] = "done"
               /\ loc[p].op = "sync"]_vars

\* C2 witness: an incremental sync of a user whose cursor is older than the
\* clock has failed at a page request.
C2_Witness ==
    /\ pc["p1"] = "failed"
    /\ loc["p1"].op = "sync"
    /\ loc["p1"].err = "CalendarSyncError"
    /\ loc["p1"].state = IsoFormat(0)
    /\ now = 25

(***************************************************************************)
(* C3: storing fetched events is a last-write-wins upsert on (user_id,      *)
(* google_event_id).  When a batch is stored, every key the batch writes   *)
(* a non-cancelled item for has exactly one row afterwards, and the row    *)
(* holds the title, start and end of the last such item of the batch,      *)
(* whatever the table held for the key before.                             *)
(***************************************************************************)
C3_Written(events, g) ==
    {i \in DOMAIN events : events[i].id = g /\ ItemAction(events[i]) = "upsert"}

C3_Last(S) == CHOOSE i \in S : \A j \in S : j <= i

C3_LastWriteWins ==
    [][\A p \in Procs :
         (pc[p] = "store" /\ pc'[p] = "update") =>
            \A g \in EventIds :
               LET events == loc[p].all_events
                   written == C3_Written(events, g)
                   rows == KeyRows(calendar_events', loc[p].user, g)
               IN written # {} =>
                    /\ Copies(calendar_events', rows) = 1
                    /\ \A r \in rows :
                         LET e == events[C3_Last(written)]
                         IN /\ r.title = Title(e)
                            /\ r.start_time = e.start
                            /\ r.end_time = e.end
                            /\ r.synced_at = now]_vars

\* C3 witness: a batch with two versions of e1 has been stored over a row
\* of an earlier sync, and the row holds the second version.
C3_Witness ==
    /\ pc["p1"] = "update"
    /\ loc["p1"].result.events_updated = 2
    /\ now = 25
    /\ \E r \in BagToSet(calendar_events) :
          /\ r.google_event_id = "e1"
          /\ r.title = "B"
          /\ r.synced_at = 25
    /\ Copies(calendar_events, KeyRows(calendar_events, "u1", "e1")) = 1

(***************************************************************************)
(* C4: in every reachable state of two interleaved sync calls of the same  *)
(* user, calendar_events holds at most one row for each (user_id,          *)
(* google_event_id).                                                       *)
(***************************************************************************)
C4_UniqueKey ==
    \A u \in Users, g \in EventIds :
        Copies(calendar_events, KeyRows(calendar_events, u, g)) <= 1

\* C4 witness: both calls have stored an item of e1, neither has returned.
C4_Witness ==
    /\ pc["p1"] = "update"
    /\ pc["p2"] = "update"
    /\ loc["p1"].result.events_added = 1
    /\ loc["p2"].result.events_added = 1
    /\ Copies(calendar_events, KeyRows(calendar_events, "u1", "e1")) = 1

(***************************************************************************)
(* C5: get_cached_events returns exactly the user's rows that are not      *)
(* soft-deleted and have end_time > time_min and start_time <= time_max,   *)
(* in ascending order of start_time, cut to the first max_results of that  *)
(* order.  No soft-deleted row and no row of another user is returned; a   *)
(* row that started before time_min and has not ended is.                  *)
(***************************************************************************)
C5_InWindow(r, c, t) ==
    LET tmin == IF c.time_min = NoTime THEN t ELSE c.time_min
        tmax == IF c.time_max = NoTime THEN tmin + DefaultWindow ELSE c.time_max
    IN r.end_time > tmin /\ r.start_time <= tmax

C5_CachedEvents ==
    [][(call' # call /\ call'.op = "get_cached_events") =>
         LET c == call'
             ev == c.events
             want == {r \in BagToSet(calendar_events) :
                         /\ r.user_id = c.user
                         /\ ~r.is_deleted
                         /\ C5_InWindow(r, c, now)}
             got == {ev[i] : i \in DOMAIN ev}
         IN /\ got \subseteq want
            /\ Cardinality(got) = Len(ev)
            /\ Len(ev) = IF Cardinality(want) < c.max_results
                         THEN Cardinality(want) ELSE c.max_results
            /\ \A i, j \in DOMAIN ev :
                  i < j => ev[i].start_time <= ev[j].start_time
            /\ \A r \in want \ got, x \in got : x.start_time <= r.start_time
            /\ \A x \in got : ~x.is_deleted /\ x.user_id = c.user]_vars

\* C5 witness: a query of u1 from 25 on returns the one row that started at
\* 0 and ends at 50, while the table also holds a row of u2 and a
\* soft-deleted row.
C5_Witness ==
    /\ call.op = "get_cached_events"
    /\ call.user = "u1"
    /\ call.time_min = 25
    /\ Len(call.events) = 1
    /\ call.events[1].start_time = 0
    /\ call.events[1].end_time = 50
    /\ \E r \in BagToSet(calendar_events) : r.user_id = "u2" /\ r.is_deleted
    /\ \E r \in BagToSet(calendar_events) : r.user_id = "u2" /\ ~r.is_deleted

(***************************************************************************)
(* C6: sync_calendar chooses its mode from the sync state.  With no        *)
(* last_sync stored, or with force_full, every page request of the fetch   *)
(* carries no updatedMin and no showDeleted; with a last_sync t stored and *)
(* force_full not set, every page request carries updatedMin = t and       *)
(* showDeleted.  A call that returns leaves exactly one sync state row of  *)
(* the user, with last_sync = now.                                         *)
(***************************************************************************)
C6_Stored(u) == {r \in calendar_sync_state : r.user_id = u /\ r.last_sync # NoTime}

C8_EvictedOnInvalidGrant ==
    [][\A p \in Procs :
         (pc[p] = "token_exchange" /\ pc'[p] = "failed"
            /\ loc'[p].status = 400) =>
               /\ loc'[p].err = "NoRefreshTokenError"
               /\ access_token_cache'[loc[p].user] = NoEntry]_vars

(***************************************************************************)
(* C9: when a page request is answered 401, the fetch raises               *)
(* TokenRefreshError and the cached access token of the user is evicted,   *)
(* so that the next get_access_token exchanges the refresh token.  The     *)
(* code raises and leaves the rejected token in _access_token_cache.       *)
(***************************************************************************)
C9_EvictedOn401 ==
    [][\A p \in Procs :
         (pc[p] = "fetch" /\ pc'[p] = "failed" /\ loc'[p].status = 401) =>
               /\ loc'[p].err = "TokenRefreshError"
               /\ access_token_cache'[loc[p].user] = NoEntry]_vars

(***************************************************************************)
(* C10: when a page request is answered 403, the fetch raises              *)
(* InsufficientScopeError, an error other than the one raised for 401.     *)
(* The code raises the plain CalendarSyncError it raises for every status  *)
(* other than 200 and 401.                                                 *)
(***************************************************************************)
C10_InsufficientScopeOn403 ==
    \A p \in Procs :
        (pc[p] = "failed" /\ loc[p].status = 403) =>
            /\ loc[p].err = "InsufficientScopeError"
            /\ loc[p].err # FetchError(401)

(***************************************************************************)
(* C11: when a page request is answered 403 while an access token of the   *)
(* user is cached, the cached token is cleared: the user's entry is absent *)
(* after the failed fetch.  The code raises and leaves the entry in        *)
(* _access_token_cache.                                                    *)
(***************************************************************************)
C11_ClearedOn403 ==
    [][\A p \in Procs :
         (pc[p] = "fetch" /\ pc'[p] = "failed" /\ loc'[p].status = 403
            /\ access_token_cache[loc[p].user] # NoEntry) =>
               access_token_cache'[loc[p].user] = NoEntry]_vars

(***************************************************************************)
(* C12: what a successful sync reports.  For a user with no sync state the *)
(* result has is_full_sync, events_updated = 0, events_added = the number  *)
(* of non-cancelled items with an id and parseable start and end (all-day  *)
(* items are not counted) and events_deleted = the number of cancelled     *)
(* items; in an incremental sync the upserts are counted in events_updated *)
(* and events_added is 0; a sync that returns leaves a sync state row with *)
(* a last_sync.  As claimed, events_deleted counts every cancelled item;   *)
(* as amended, every cancelled item that has an id.                        *)
(***************************************************************************)
C12_Upserts(events) ==
    Cardinality({i \in DOMAIN events :
                    /\ events[i].id # None
                    /\ events[i].status # "cancelled"
                    /\ events[i].start >= 0
                    /\ events[i].end >= 0})

C12_Cancelled(events) ==
    Cardinality({i \in DOMAIN events : events[i].status = "cancelled"})

C12_CancelledWithId(events) ==
    Cardinality({i \in DOMAIN events :
                    events[i].status = "cancelled" /\ events[i].id # None})

C12_Reported(p, deleted) ==
    LET u == loc[p].user
        events == loc[p].all_events
        r == loc'[p].result
        stored == {s \in calendar_sync_state : s.user_id = u}
        synced == {s \in stored : s.last_sync # NoTime}
    IN /\ (pc[p] = "store" /\ pc'[p] = "update" /\ stored = {}) =>
             /\ r.is_full_sync
             /\ r.events_updated = 0
             /\ r.events_added = C12_Upserts(events)
             /\ r.events_deleted = deleted
       /\ (pc[p] = "store" /\ pc'[p] = "update" /\ synced # {}
             /\ ~loc[p].force_full) =>
             /\ r.events_updated = C12_Upserts(events)
             /\ r.events_added = 0
             /\ r.events_deleted = deleted
       /\ (pc[p] = "update" /\ pc'[p] = "done") =>
             \E s \in calendar_sync_state' :
                s.user_id = u /\ s.last_sync # NoTime

\* C12 as claimed: events_deleted is the number of cancelled items.
C12_CountsAsClaimed ==
    [][\A p \in Procs :
         C12_Reported(p, C12_Cancelled(loc[p].all_events))]_vars

\* C12 as amended: events_deleted is the number of cancelled items that
\* have an id.
C12_Counts ==
    [][\A p \in Procs :
         C12_Reported(p, C12_CancelledWithId(loc[p].all_events))]_vars

\* C12 witness: the first sync of a user has stored a batch of one timed
\* item and one cancelled item: one added, one deleted, a full sync.
C12_Witness ==
    /\ pc["p1"] = "update"
    /\ calendar_sync_state = {}
    /\ loc["p1"].result =
          [events_added |-> 1, events_updated |-> 0, events_deleted |-> 1,
           is_full_sync |-> TRUE]

(***************************************************************************)
(* C13: revoke_tokens.  When it returns, the user has no cached access     *)
(* token and no row in user_google_tokens; while the user has neither, a   *)
(* get_access_token call (and the get_refresh_token in it) can end only by *)
(* raising NoRefreshTokenError; revoke_tokens of a user who has neither    *)
(* changes nothing, so a second call leaves the state of the first.        *)
(***************************************************************************)
C13_NoTokens(cache, tbl, u) ==
    /\ cache[u] = NoEntry
    /\ TokenRows(tbl, u) = {}

C14_Stored(tbl, u, token) ==
    /\ Cardinality(TokenRows(tbl, u)) = 1
    /\ \A r \in TokenRows(tbl, u) :
         /\ DecryptOk(CurrentKey, r.refresh_token)
         /\ DecryptToken(CurrentKey, r.refresh_token) = token

C14_Upsert ==
    [][/\ \A u \in Owners : Cardinality(TokenRows(user_google_tokens', u)) <= 1
       /\ (call'.op = "store_refresh_token" /\ call'.err = None) =>
             /\ C14_Stored(user_google_tokens', call'.user, call'.token)
             /\ \A u \in Owners \ {call'.user} :
                  TokenRows(user_google_tokens', u) =
                      TokenRows(user_google_tokens, u)
       /\ call'.op \in {"get_refresh_token", "has_refresh_token"} =>
             UNCHANGED user_google_tokens
       /\ (call.op = "store_refresh_token" /\ call.err = None
             /\ call'.op = "get_refresh_token" /\ call'.user = call.user
             /\ call'.db = "ok") =>
             /\ call'.err = None
             /\ call'.value = call.token]_vars

\* C14 witness: u1 and u2 each have a row, u1's holds the second of the two
\* tokens under the current key, and a get_refresh_token for u1 has
\* returned it.
C14_Witness ==
    /\ call.op = "get_refresh_token"
    /\ call.user = "u1"
    /\ call.err = None
    /\ call.value = OAuthToken + 1
    /\ C14_Stored(user_google_tokens, "u1", OAuthToken + 1)
    /\ TokenRows(user_google_tokens, "u2") # {}

(***************************************************************************)
(* C15: get_refresh_token raises NoRefreshTokenError when the user has no  *)
(* row.  When the user's row cannot be decrypted under the current key     *)
(* (and the SELECT returned it), it raises GoogleTokenError "Token         *)
(* decryption failed" and returns no value; the two exceptions differ, and *)
(* a value is returned only from a row that decrypts under the current     *)
(* key.                                                                    *)
(***************************************************************************)
C15_Undecryptable(tbl, u) ==
    \E r \in TokenRows(tbl, u), iv \in Nonces, token \in CredTokens :
       r.refresh_token = EncryptToken(OldKey, iv, token)

C15_ReadFailures ==
    [][call'.op = "get_refresh_token" =>
         LET u == call'.user IN
         /\ TokenRows(user_google_tokens, u) = {} =>
               /\ call'.err = "NoRefreshTokenError"
               /\ call'.value = NoToken
         /\ (C15_Undecryptable(user_google_tokens, u) /\ call'.db = "ok") =>
               /\ call'.err = "GoogleTokenError"
               /\ call'.value = NoToken
         /\ call'.err = None =>
               \E r \in TokenRows(user_google_tokens, u), iv \in Nonces :
                  r.refresh_token = EncryptToken(CurrentKey, iv, call'.value)
         /\ call'.err = "NoRefreshTokenError" =>
               ~(C15_Undecryptable(user_google_tokens, u) /\ call'.db = "ok")]_vars

\* C15 witness: get_refresh_token for u1, whose row was written under the
\* earlier key, has raised GoogleTokenError, while u2 has a row of the
\* current key.
C15_Witness ==
    /\ call.op = "get_refresh_token"
    /\ call.user = "u1"
    /\ call.db = "ok"
    /\ call.err = "GoogleTokenError"
    /\ C15_Undecryptable(user_google_tokens, "u1")
    /\ TokenRows(user_google_tokens, "u2") # {}

(***************************************************************************)
(* C16: has_refresh_token is a boolean existence probe.  Whenever the      *)
(* database answers, the call raises nothing, returns True exactly when    *)
(* the user has a row, and changes no state.                               *)
(***************************************************************************)
C16_ExistenceProbe ==
    [][(call'.op = "has_refresh_token" /\ call'.db = "ok") =>
         /\ call'.err = None
         /\ (call'.found = "True") =
               (TokenRows(user_google_tokens, call'.user) # {})
         /\ UNCHANGED <<user_google_tokens, access_token_cache>>]_vars

(***************************************************************************)
(* C19: the step of get_access_token in which the token endpoint answers   *)
(* 200 caches the access token of the answer for the user, for             *)
(* ACCESS_TOKEN_CACHE_TTL, and writes no row.  If the answer holds a       *)
(* refresh token other than the one sent, the call goes on to store it,    *)
(* and when that store is done get_refresh_token returns the new token;    *)
(* if the answer holds none, or the one sent, the call returns without     *)
(* storing.  No other step of the call writes user_google_tokens, and a    *)
(* store that the database refuses leaves the row and the cache entry.     *)
(***************************************************************************)
C19_RotationStored ==
    [][\A p \in Procs :
         LET u == loc[p].user
             new == loc'[p].new_refresh_token
         IN
         /\ (pc[p] = "token_exchange" /\ pc'[p] # pc[p] /\ loc'[p].status = 200) =>
               /\ loc'[p].access_token = issued'
               /\ access_token_cache'[u] =
                      Entry(loc'[p].access_token, now + ACCESS_TOKEN_CACHE_TTL)
               /\ UNCHANGED user_google_tokens
               /\ (new # NoToken /\ new # loc[p].refresh_token) =>
                      pc'[p] = "token_store"
               /\ (new = NoToken \/ new = loc[p].refresh_token) =>
                      pc'[p] = AfterToken(loc[p])
         /\ (pc[p] = "token_store" /\ pc'[p] = AfterToken(loc[p])) =>
               /\ ReadRefreshToken(user_google_tokens', u, TRUE) =
                      [err |-> None, value |-> loc[p].new_refresh_token]
               /\ loc[p].new_refresh_token # loc[p].refresh_token
               /\ UNCHANGED access_token_cache
         /\ (pc'[p] # pc[p] /\ pc[p] \notin {"token_store", "revoke_delete"}) =>
               UNCHANGED user_google_tokens
         /\ (pc[p] = "token_store" /\ pc'[p] = "failed") =>
               UNCHANGED vaultVars]_vars

\* C19 witness: a get_access_token call has returned the access token of
\* its exchange, which is cached, after storing the rotated refresh token
\* the exchange issued; the row decrypts to that token.
C19_Witness ==
    /\ pc["p1"] = "done"
    /\ loc["p1"].op = "token"
    /\ loc["p1"].exchanges = 1
    /\ loc["p1"].new_refresh_token > OAuthToken
    /\ access_token_cache["u1"] # NoEntry
    /\ EValue(access_token_cache["u1"]) = loc["p1"].access_token
    /\ ReadRefreshToken(user_google_tokens, "u1", TRUE).value =
           loc["p1"].new_refresh_token

(***************************************************************************)
(* C20: when the token endpoint answers the exchange with an error other   *)
(* than invalid_grant (status 500 here), get_access_token raises           *)
(* TokenRefreshError, not NoRefreshTokenError, and that step leaves the    *)
(* access-token cache and the stored row as they were; the steps of the    *)
(* call before the exchange write no cache entry either.                   *)
(***************************************************************************)
C20_TokenRefreshError ==
    [][\A p \in Procs :
         /\ (pc[p] = "token_exchange" /\ pc'[p] # pc[p] /\ loc'[p].status = 500) =>
               /\ pc'[p] = "failed"
               /\ loc'[p].err = "TokenRefreshError"
               /\ loc'[p].access_token = NoToken
               /\ UNCHANGED vaultVars
         /\ (pc[p] \in {"token_cache", "token_read"} /\ pc'[p] # pc[p]) =>
               UNCHANGED access_token_cache]_vars

\* C20 witness: a get_access_token call that read the stored refresh token
\* has raised TokenRefreshError on a 500 answer; the user has a row and no
\* cached access token.
C20_Witness ==
    /\ pc["p1"] = "failed"
    /\ loc["p1"].op = "token"
    /\ loc["p1"].status = 500
    /\ loc["p1"].err = "TokenRefreshError"
    /\ loc["p1"].exchanges = 1
    /\ TokenRows(user_google_tokens, "u1") # {}
    /\ access_token_cache["u1"] = NoEntry

(***************************************************************************)
(* C21: the auto-sync of the read path is not repeated.  A                 *)
(* get_calendar_events request that follows one which made an auto-sync    *)
(* attempt, successful or not, does not start another sync.                *)
(***************************************************************************)
C21_AutoSyncOnce ==
    [][(call.op = "get_calendar_events" /\ call.phase = "returned"
          /\ call.synced = "True") =>
            ~(call'.op = "get_calendar_events" /\ call'.phase = "sync")]_vars

(***************************************************************************)
(* C22: errors of the Redis backend do not reach the caller.  Every        *)
(* CacheService get answers a value or None, every set and delete a bool.  *)
(* When the server fails during an operation the primary serves, get       *)
(* answers None, as for an absent key, set and delete answer False, and    *)
(* the keyspace is left as it was; when the health check fails, the        *)
(* operation is served by the fallback.                                    *)
(***************************************************************************)
C22_Answers(op) ==
    IF op = "get" THEN CacheValues \cup {None} ELSE {"True", "False"}

C22_ErrorsSwallowed ==
    [][last_op' # last_op =>
         /\ last_op'.result \in C22_Answers(last_op'.op)
         /\ (last_op'.backend = "primary" /\ ~primary_up') =>
               /\ last_op'.result = IF last_op'.op = "get" THEN None ELSE "False"
               /\ redis_data' = redis_data
         /\ (last_op'.op = "get" /\ last_op'.backend = "primary"
               /\ redis_data[last_op'.key] = NoEntry) =>
               last_op'.result = None
         /\ (~using_fallback /\ ~primary_up) =>
               /\ last_op'.pinged
               /\ last_op'.backend = "fallback"]_vars

\* C22 witness: a set the primary served has answered False because the
\* server failed during it, although the ttl was valid and the key is not
\* stored; an earlier entry of the other key is still in the keyspace.
C22_Witness ==
    /\ last_op.op = "set"
    /\ last_op.backend = "primary"
    /\ last_op.result = "False"
    /\ ~primary_up
    /\ ~using_fallback
    /\ redis_data[last_op.key] = NoEntry
    /\ \E k \in CacheKeys : redis_data[k] # NoEntry

(***************************************************************************)
(* C23: every CacheService operation is served by one backend, the active  *)
(* one.  While the service has not switched and the primary answers the    *)
(* ping, the operation is served by the primary and the fallback's dict is *)
(* not touched; when the ping fails, that operation is served by the       *)
(* fallback, the Redis keyspace is not touched and _using_fallback is set; *)
(* once switched, the fallback serves.                                     *)
(***************************************************************************)
C23_ActiveBackend ==
    [][last_op' # last_op =>
         /\ last_op'.backend \in {"primary", "fallback"}
         /\ last_op'.backend = "primary" =>
               /\ mem_cache' = mem_cache
               /\ ~using_fallback'
         /\ last_op'.backend = "fallback" =>
               /\ redis_data' = redis_data
               /\ using_fallback'
         /\ (~using_fallback /\ primary_up) => last_op'.backend = "primary"
         /\ (~using_fallback /\ ~primary_up) => last_op'.backend = "fallback"
         /\ using_fallback => last_op'.backend = "fallback"]_vars

\* C23 witness: the operation whose ping failed has been served by the
\* fallback, which now holds its entry; the Redis keyspace holds an entry
\* of the time before, and the service has switched.
C23_Witness ==
    /\ last_op.op = "set"
    /\ last_op.pinged
    /\ last_op.backend = "fallback"
    /\ using_fallback
    /\ mem_cache[last_op.key] # NoEntry
    /\ \E k \in CacheKeys : redis_data[k] # NoEntry

(***************************************************************************)
(* C24: CacheService.close closes the primary and the fallback, whether    *)
(* or not the service had switched: there is never exactly one of the two  *)
(* closed, and the fallback's dict is empty after close.                   *)
(***************************************************************************)
C24_CloseBoth ==
    /\ [](closed \in {{}, {"primary", "fallback"}})
    /\ [][closed' # closed =>
            /\ closed' = {"primary", "fallback"}
            /\ \A k \in CacheKeys : mem_cache'[k] = NoEntry]_vars

\* C24 witness: both backends are closed after the service had switched to
\* the fallback, with an entry still in the Redis keyspace.
C24_Witness ==
    /\ closed = {"primary", "fallback"}
    /\ using_fallback
    /\ \E k \in CacheKeys : redis_data[k] # NoEntry

(***************************************************************************)
(* C25: the in-memory backend.  A set stores (value, now + ttl) under the  *)
(* key and nothing else; a get answers the stored value exactly when the   *)
(* key has an entry and now is before its expiry, and then leaves the dict *)
(* as it is; a get of an entry whose expiry has passed, one set with a     *)
(* ttl that is not positive included, answers None and removes the entry;  *)
(* a delete removes the entry; and no other step but close touches the     *)
(* dict.                                                                   *)
(***************************************************************************)
C25_Live(cache, k, t) == cache[k] # NoEntry /\ t < cache[k][2]

C25_Others(k) == \A j \in CacheKeys \ {k} : mem_cache'[j] = mem_cache[j]

C25_MemoryBackend ==
    [][/\ (last_op' # last_op /\ last_op'.backend = "fallback") =>
            LET k == last_op'.key IN
            /\ C25_Others(k)
            /\ last_op'.op = "set" =>
                  \E v \in CacheValues, ttl \in CacheTtls :
                     mem_cache'[k] = <<v, now + ttl>>
            /\ last_op'.op = "delete" => mem_cache'[k] = NoEntry
            /\ last_op'.op = "get" =>
                  IF C25_Live(mem_cache, k, now)
                  THEN /\ last_op'.result = mem_cache[k][1]
                       /\ mem_cache'[k] = mem_cache[k]
                  ELSE /\ last_op'.result = None
                       /\ mem_cache'[k] = NoEntry
       /\ (mem_cache' # mem_cache /\ closed' = closed) =>
            (last_op' # last_op /\ last_op'.backend = "fallback")]_vars

\* C25 witness: a get served by the in-memory backend has answered None
\* and the key has no entry, while the other key holds an entry set with a
\* ttl that is not positive (its expiry is not after now).
C25_Witness ==
    /\ last_op.op = "get"
    /\ last_op.backend = "fallback"
    /\ last_op.result = None
    /\ mem_cache[last_op.key] = NoEntry
    /\ \E k \in CacheKeys : mem_cache[k] # NoEntry /\ mem_cache[k][2] <= now

(***************************************************************************)
(* C26: delete of the in-memory backend.  It answers True exactly when the *)
(* dict holds an entry under the key, expired or not, and removes it; the  *)
(* key then has no entry, and a get answers None, until a set of that key. *)
(***************************************************************************)
C26_Delete(live) ==
    (last_op' # last_op /\ last_op'.backend = "fallback") =>
         LET k == last_op'.key IN
         /\ last_op'.op = "delete" =>
               /\ (last_op'.result = "True") =
                     (mem_cache[k] # NoEntry /\ (live => now < mem_cache[k][2]))
               /\ mem_cache'[k] = NoEntry
         /\ (mem_cache[k] = NoEntry /\ last_op'.op = "get") =>
               /\ last_op'.result = None
               /\ mem_cache'[k] = NoEntry
         /\ (mem_cache[k] = NoEntry /\ mem_cache'[k] # NoEntry) =>
               last_op'.op = "set"

\* C26 as claimed: True exactly when the key holds an entry a get would
\* return.
C26_DeleteReportsLive == [][C26_Delete(TRUE)]_vars

\* C26 as the code has it: True exactly when the key holds an entry.
C26_DeleteReportsExisted == [][C26_Delete(FALSE)]_vars

\* C26 witness: a delete served by the in-memory backend has answered True
\* and the key has no entry; the other key holds an expired entry that no
\* get has evicted yet.
C26_Witness ==
    /\ last_op.op = "delete"
    /\ last_op.backend = "fallback"
    /\ last_op.result = "True"
    /\ mem_cache[last_op.key] = NoEntry
    /\ \E k \in CacheKeys : mem_cache[k] # NoEntry /\ mem_cache[k][2] <= now

(***************************************************************************)
(* C27: a failed request is not retried.  A sync call whose page request   *)
(* fails raises at once, with no page token requested twice and nothing    *)
(* written; a call whose token exchange fails has made that one POST and   *)
(* no page request; a call that has raised takes no further step.  The     *)
(* error is TokenRefreshError for 401, the timeout exception for a         *)
(* timeout, and for 429 the error named by at429.                          *)
(***************************************************************************)
C27_NoRepeat(requests) ==
    \A i, j \in DOMAIN requests :
       i # j => requests[i].pageToken # requests[j].pageToken

C27_Steps(p, at429) ==
    /\ (pc[p] = "fetch" /\ pc'[p] # pc[p] /\ loc'[p].status # 200) =>
          /\ pc'[p] = "failed"
          /\ Len(loc'[p].requests) \in 1..MaxPages
          /\ C27_NoRepeat(loc'[p].requests)
          /\ loc'[p].err = CASE loc'[p].status = 401 -> "TokenRefreshError"
                             [] loc'[p].status = 429 -> at429
                             [] loc'[p].status = 0 -> "TimeoutException"
                             [] OTHER -> "CalendarSyncError"
          /\ UNCHANGED <<syncVars, vaultVars>>
    /\ (pc[p] = "token_exchange" /\ pc'[p] = "failed") =>
          /\ loc'[p].exchanges = 1
          /\ loc'[p].requests = <<>>
          /\ loc'[p].err \in {"NoRefreshTokenError", "TokenRefreshError"}
    /\ (pc[p] = "failed" /\ loc'[p] # loc[p]) =>
          /\ pc'[p] = "token_cache"
          /\ loc'[p].exchanges = 0
          /\ loc'[p].requests = <<>>

C28_WellFormed(e) ==
    e.status = "cancelled" \/ e.id = None \/ (e.start >= 0 /\ e.end >= 0)

C28_MalformedSkipped ==
    [][\A p \in Procs :
         (pc[p] = "store" /\ pc'[p] # pc[p]) =>
            LET clean == SelectSeq(loc[p].all_events, C28_WellFormed)
                r == StoreEvents(calendar_events, loc[p].user, clean,
                                 loc[p].is_incremental, now)
            IN \/ /\ pc'[p] = "update"
                  /\ calendar_events' = r.table
                  /\ loc'[p].result = r.result
               \/ /\ pc'[p] = "failed"
                  /\ loc'[p].err = "SQLAlchemyError"
                  /\ UNCHANGED calendar_events]_vars

(***************************************************************************)
(* C29: sync never hard-deletes.  No step removes a (user_id,              *)
(* google_event_id) key from calendar_events.  A store that handles        *)
(* cancelled items only leaves the keys and the number of rows as they     *)
(* were: each row of a cancelled key has is_deleted set and synced_at set  *)
(* to the time of the store, every other row is as it was, and a           *)
(* cancelled item whose key has no row creates none.                       *)
(***************************************************************************)
C29_Keys(tbl) == {<<r.user_id, r.google_event_id>> : r \in BagToSet(tbl)}

C29_CancelledIds(events) ==
    {events[i].id : i \in {j \in DOMAIN events :
                             /\ events[j].status = "cancelled"
                             /\ events[j].id # None}}

C29_OnlyCancelled(events) ==
    /\ C29_CancelledIds(events) # {}
    /\ \A i \in DOMAIN events : events[i].status = "cancelled"

C29_SoftDelete ==
    [][/\ C29_Keys(calendar_events) \subseteq C29_Keys(calendar_events')
       /\ \A p \in Procs :
            (pc[p] = "store" /\ pc'[p] = "update"
               /\ C29_OnlyCancelled(loc[p].all_events)) =>
               LET gone == C29_CancelledIds(loc[p].all_events) IN
               /\ C29_Keys(calendar_events') = C29_Keys(calendar_events)
               /\ BagCardinality(calendar_events') =
                      BagCardinality(calendar_events)
               /\ \A r \in BagToSet(calendar_events) :
                    IF r.user_id = loc[p].user /\ r.google_event_id \in gone
                    THEN BagIn([r EXCEPT !.is_deleted = TRUE,
                                         !.synced_at = now],
                               calendar_events')
                    ELSE BagIn(r, calendar_events')
               /\ \A r \in BagToSet(calendar_events') :
                    (r.user_id = loc[p].user /\ r.google_event_id \in gone) =>
                        r.is_deleted /\ r.synced_at = now]_vars

\* C29 witness: a sync whose batch was one cancelled item has soft-deleted
\* the row an earlier sync wrote: the row is there, flagged, with the
\* synced_at of the later sync.
C29_Witness ==
    /\ pc["p1"] = "done"
    /\ loc["p1"].op = "sync"
    /\ loc["p1"].result.events_deleted = 1
    /\ loc["p1"].result.events_added = 0
    /\ loc["p1"].result.events_updated = 0
    /\ \E r \in BagToSet(calendar_events) :
          r.is_deleted /\ r.synced_at > 0 /\ r.title # "Untitled Event"

(***************************************************************************)
(* C30: a failed exchange leaves the stored refresh token.  The step in    *)
(* which the token endpoint answers invalid_grant or another error leaves  *)
(* user_google_tokens as it was, as do the steps of the call before it;    *)
(* the call that failed takes no further step, and the next                *)
(* get_access_token of the caller reads the refresh token the table holds. *)
(***************************************************************************)
C30_RowKept ==
    [][\A p \in Procs :
         /\ (pc[p] = "token_exchange" /\ pc'[p] = "failed") =>
               /\ loc'[p].status \in {400, 500}
               /\ UNCHANGED user_google_tokens
         /\ (pc[p] \in {"token_cache", "token_read"} /\ pc'[p] # pc[p]) =>
               UNCHANGED user_google_tokens
         /\ (pc[p] = "failed" /\ pc'[p] # pc[p]) =>
               UNCHANGED user_google_tokens
         /\ (pc[p] = "token_read" /\ pc'[p] = "token_exchange") =>
               \E r \in TokenRows(user_google_tokens, loc[p].user),
                  iv \in Nonces :
                  r.refresh_token =
                      EncryptToken(CurrentKey, iv, loc'[p].refresh_token)]_vars

\* C30 witness: a get_access_token call has failed on invalid_grant and
\* the user's row, written before any exchange, is still there.
C30_Witness ==
    /\ pc["p1"] = "failed"
    /\ loc["p1"].op = "token"
    /\ loc["p1"].status = 400
    /\ loc["p1"].err = "NoRefreshTokenError"
    /\ issued = 0
    /\ pc["p2"] = "idle"
    /\ TokenRows(user_google_tokens, "u1") # {}

(***************************************************************************)
(* C31: a fetch that fails on a later page.  The events of the pages the   *)
(* same call fetched before the failing request are committed to           *)
(* calendar_events: every item of those pages that _store_events would     *)
(* upsert has a row, and the sync state is left as it was.  The code       *)
(* gathers all pages first and stores after the last one: on a failed      *)
(* request the items fetched so far are dropped with the exception.        *)
(***************************************************************************)
C31_EarlierPagesCommitted ==
    [][\A p \in Procs :
         (pc[p] = "fetch" /\ pc'[p] = "failed" /\ Len(loc'[p].requests) >= 2) =>
            LET earlier == loc'[p].all_events IN
            /\ \A i \in DOMAIN earlier :
                  ItemAction(earlier[i]) = "upsert" =>
                     \E r \in KeyRows(calendar_events', loc[p].user,
                                      earlier[i].id) : ~r.is_deleted
            /\ calendar_sync_state' = calendar_sync_state]_vars

(***************************************************************************)
(* C32: pagination.  The first request of a fetch carries no page token    *)
(* and each following request carries the nextPageToken of the response    *)
(* before it; the loop goes on exactly while the responses are pages with  *)
(* a nextPageToken, and stops at the first without one; the fetch returns  *)
(* the items of all the pages, concatenated in the order the provider      *)
(* answered; and a fetch against a provider whose pages lead to a page     *)
(* without a nextPageToken (or to a failure) ends.                         *)
(***************************************************************************)
RECURSIVE C32_Concat(_)
C32_Concat(responses) ==
    IF responses = <<>> THEN <<>>
    ELSE Head(responses).items \o C32_Concat(Tail(responses))

\* Following the tokens from `token`, the provider gets within n requests to
\* a page without a nextPageToken or to a failure.
RECURSIVE C32_Ends(_, _, _)
C32_Ends(pages, token, n) ==
    /\ n > 0
    /\ \/ pages[token].status # 200
       \/ pages[token].next = NoPage
       \/ C32_Ends(pages, pages[token].next, n - 1)

C32_Pagination ==
    /\ [](call.op = "_fetch_events_from_google" =>
            LET rq == call.requests
                rs == call.responses
                n == Len(rs)
            IN /\ Len(rq) = n
               /\ n > 0 => rq[1].pageToken = NoPage
               /\ \A i \in 1..(n - 1) :
                     /\ rs[i].status = 200
                     /\ rs[i].next # NoPage
                     /\ rq[i + 1].pageToken = rs[i].next
               /\ (call.phase = "loop" /\ n > 0) =>
                     rs[n].status = 200 /\ rs[n].next # NoPage
               /\ call.phase = "returned" =>
                     /\ n > 0
                     /\ rs[n].status = 200
                     /\ rs[n].next = NoPage
                     /\ call.all_events = C32_Concat(rs))
    /\ (FetchInFlight /\ C32_Ends(call.pages, NoPage, MaxPages))
          ~> (call.op = "_fetch_events_from_google"
                /\ call.phase \in {"returned", "raised"})

\* C32 witness: a fetch has returned after two requests, the second for the
\* token of the first response, with the item of the first page before the
\* item of the second.
C32_Witness ==
    /\ call.op = "_fetch_events_from_google"
    /\ call.phase = "returned"
    /\ Len(call.requests) = 2
    /\ call.requests[2].pageToken = 1
    /\ call.all_events = <<Item("e1", "confirmed", "A", 25, 50),
                           Item("e1", "cancelled", None, 25, 50)>>

MONTHLY_LIMIT == 5        \* monthly_limit of the subscription row created

MaxRecords == 2           \* hype records created in a behaviour of SpecHype

\* get_monthly_usage: the user's records created since the first instant of
\* the month of t, errors excluded (the model's months have 30 days).
MonthlyUsage(tbl, u, t) ==
    Cardinality({h \in tbl : /\ h.user_id = u
                             /\ h.created_at >= t - (t % 43200)
                             /\ h.status # "error"})

\* generate_hype up to its usage check.  get_usage_info reads the user's
\* subscription row, created on first use with monthly_limit 5 and changed
\* by no code, and counts the month's records; can_generate is
\* used < monthly_limit, and the request is refused with 429 without it.
GenerateHype(p, users) ==
    /\ pc[p] \in Finished
    /\ \E u \in users :
          LET l == [NoLocals EXCEPT !.op = "generate_hype", !.user = u]
          IN IF MonthlyUsage(hype_records, u, now) < MONTHLY_LIMIT
             THEN Goto(p, "create_hype", l)
             ELSE Goto(p, "failed",
                       [l EXCEPT !.status = 429, !.err = "HTTPException"])
    /\ UNCHANGED <<now, google_events, hype_records, cacheVars, vaultVars,
                   syncVars, call>>

\* generate_hype, create_hype_record: a pending row, or a HypeStorageError
\* that the handler logs before it goes on without a record.
CreateHypeRecord(p) ==
    /\ pc[p] = "create_hype"
    /\ \/ \E g \in EventIds :
            LET id == Cardinality(hype_records) + 1
            IN /\ hype_records' = hype_records \cup
                     {[id |-> id, user_id |-> loc[p].user,
                       google_event_id |-> g, status |-> "pending",
                       hype_text |-> 0, audio_url |-> 0, created_at |-> now]}
               /\ Goto(p, "hype_text", [loc[p] EXCEPT !.hype_id = id])
       \/ /\ Goto(p, "hype_text", loc[p])
          /\ UNCHANGED hype_records
    /\ UNCHANGED <<now, google_events, cacheVars, vaultVars, syncVars, call>>

\* generate_hype from generate_hype_text on: the generation raises (500), or
\* update_with_text marks the record text_ready, or that update fails and is
\* logged; without a record there is nothing to update.
UpdateWithText(p) ==
    /\ pc[p] = "hype_text"
    /\ \/ /\ Goto(p, "failed", [loc[p] EXCEPT !.status = 500,
                                              !.err = "HTTPException"])
          /\ UNCHANGED hype_records
       \/ /\ loc[p].hype_id # 0
          /\ hype_records' =
                {IF h.id = loc[p].hype_id
                 THEN [h EXCEPT !.status = "text_ready", !.hype_text = h.id]
                 ELSE h : h \in hype_records}
          /\ Goto(p, "done", loc[p])
       \/ /\ Goto(p, "done", loc[p])
          /\ UNCHANGED hype_records
    /\ UNCHANGED <<now, google_events, cacheVars, vaultVars, syncVars, call>>

\* upload_audio for a record: the row becomes audio_ready with its audio
\* url, or the upload fails and the row is marked error.
UploadAudio ==
    /\ \E r \in hype_records, ok \in BOOLEAN :
          hype_records' =
             {IF h.id # r.id THEN h
              ELSE IF ok THEN [h EXCEPT !.status = "audio_ready",
                                        !.audio_url = h.id]
              ELSE [h EXCEPT !.status = "error"] : h \in hype_records}
    /\ UNCHANGED <<now, google_events, cacheVars, vaultVars, syncVars,
                   procVars, call>>

\* The cache after a full sync of u1 that stored two events; no hype yet.
InitHype ==
    /\ InitCache
    /\ now = 0
    /\ user_google_tokens = {}
    /\ issued = 0
    /\ access_token_cache = [u \in Users |-> NoEntry]
    /\ calendar_sync_state = {}
    /\ calendar_events =
           StoreEvents(EmptyBag, "u1",
                       <<Item("e1", "confirmed", "A", 25, 50),
                         Item("e2", "confirmed", "B", 25, 50)>>,
                       FALSE, 0).table
    /\ google_events = {}
    /\ hype_records = {}
    /\ pc = [p \in Procs |-> "idle"]
    /\ loc = [p \in Procs |-> NoLocals]
    /\ call = NoCall

\* The records are written while the clock advances, and then read: a
\* behaviour ends with one query.
NextHype ==
    \/ call = NoCall /\ Tick
    \/ /\ call = NoCall
       /\ Cardinality(hype_records) < MaxRecords
       /\ GenerateHype("p1", Owners)
    \/ call = NoCall /\ CreateHypeRecord("p1")
    \/ call = NoCall /\ UpdateWithText("p1")
    \/ call = NoCall /\ UploadAudio
    \/ call = NoCall /\ GetCachedEventsOf({NoTime}, {NoTime}, {2})

SpecHype == InitHype /\ [][NextHype]_vars


\* C34: every event returned by get_cached_events carries the hype of the
\* record with the greatest created_at among the records of the same user
\* and the same google_event_id whose status is text_ready or audio_ready,
\* and carries none when there is no such record; records of other users,
\* of other events, and pending or error records are never attached.
C34_LatestHype ==
    [][(call' # call /\ call'.op = "get_cached_events")
       => /\ DOMAIN call'.latest_hype = DOMAIN call'.events
          /\ \A i \in DOMAIN call'.events :
                LET ev == call'.events[i]
                    got == call'.latest_hype[i]
                    ready == {h \in hype_records :
                                 /\ h.user_id = call'.user
                                 /\ h.google_event_id = ev.google_event_id
                                 /\ h.status \in {"text_ready", "audio_ready"}}
                IN IF ready = {}
                   THEN got = NoEntry
                   ELSE \E h \in ready :
                           /\ \A k \in ready : k.created_at <= h.created_at
                           /\ got = <<h.hype_text, h.audio_url>>]_vars

\* u1's event e1 has two ready records created at different times and a
\* query attached the later one; the other returned event carries none.
C34_Witness ==
    /\ call # NoCall
    /\ call.op = "get_cached_events"
    /\ call.user = "u1"
    /\ Len(call.events) = 2
    /\ \E i, j \in DOMAIN call.events :
          /\ call.events[i].google_event_id = "e1"
          /\ call.latest_hype[i] = <<2, 0>>
          /\ call.latest_hype[j] = NoEntry
    /\ \E h, k \in hype_records :
          /\ h.id = 1 /\ k.id = 2
          /\ h.user_id = "u1" /\ k.user_id = "u1"
          /\ h.google_event_id = "e1" /\ k.google_event_id = "e1"
          /\ h.status = "audio_ready" /\ k.status = "text_ready"
          /\ h.created_at < k.created_at


\* C35: no provider change is skipped by the cursor.  When a sync writes the
\* cursor, every event of the provider that changed after the sync's fetch
\* observed the provider is one that an incremental listing from the cursor
\* just written returns: the cursor is not later than that change.
C35_NoChangeSkipped ==
    [][\A p \in Procs :
          (pc[p] = "update" /\ pc'[p] = "done")
          => \A e \in google_events :
                e.updated > loc[p].fetched_at
                => \A s \in SyncRows(calendar_sync_state', loc[p].user) :
                      Listing({e}, PageParams(s.last_sync, NoPage)) # <<>>]_vars


(***************************************************************************)
(* Sync against a provider that changes only between syncs: no event is    *)
(* created, modified or cancelled while a sync_calendar call is running.   *)
(***************************************************************************)
NextQuiet ==
    \/ Tick
    \/ pc["p1"] \in Finished /\ ProviderChange
    \/ ProviderRequest("p1")
    \/ GetRefreshToken("p1")
    \/ ExchangeRefreshTokenNoRotation("p1")

SpecQuiet == InitRace /\ [][NextQuiet]_vars

\* C36: when a forced full sync during which the provider did not change
\* completes, the user's rows that are not soft-deleted are exactly the
\* provider's events that are not cancelled (every event of the model lies
\* inside the sync window), with the provider's summary as title; an event
\* cancelled before the sync has no live row.
C36_FullSyncMirrors ==
    [][\A p \in Procs :
          (/\ pc[p] = "update" /\ pc'[p] = "done"
           /\ loc[p].force_full /\ loc[p].result.is_full_sync)
          => LET live == {r \in BagToSet(calendar_events') :
                             r.user_id = loc[p].user /\ ~r.is_deleted}
                 active == {e \in google_events : e.status # "cancelled"}
             IN /\ {r.google_event_id : r \in live} = {e.id : e \in active}
                /\ \A r \in live, e \in active :
                      r.google_event_id = e.id => r.title = e.summary]_vars


\* The provider version a cached row holds, in the order the provider's
\* event goes through them: no row, summary A, summary B, cancelled.
C37_Revision(tbl, u, g) ==
    LET rows == KeyRows(tbl, u, g)
    IN IF rows = {} THEN 0
       ELSE IF \E r \in rows : r.is_deleted THEN 3
       ELSE IF \E r \in rows : r.title = "B" THEN 2
       ELSE 1

\* C37: when sync calls of one user interleave, a sync that reconciles its
\* fetch result never replaces the cached row of an event by an older
\* provider version than the row already holds: it neither overwrites newer
\* values nor clears a newer soft-delete.
C37_NewestKept ==
    [][\A p \in Procs :
          (pc[p] = "store" /\ pc'[p] = "update")
          => \A g \in EventIds :
                C37_Revision(calendar_events', loc[p].user, g)
                   >= C37_Revision(calendar_events, loc[p].user, g)]_vars


(***************************************************************************)
(* get_access_token calls of one user that run concurrently, with nothing  *)
(* else writing the credential and a cache that does not expire meanwhile. *)
(***************************************************************************)
NextRefresh ==
    \E p \in Procs :
       \/ GetAccessTokenCall(p)
       \/ GetAccessTokenCache(p)
       \/ GetRefreshToken(p)
       \/ ExchangeRefreshToken(p)
       \/ StoreRotatedToken(p)

SpecRefresh == Init /\ [][NextRefresh]_vars

\* C38: when two get_access_token calls of one user have both missed the
\* cache, both been issued a rotated refresh token and both completed, the
\* stored credential decrypts to the refresh token of the exchange the
\* provider processed last (the later-issued one), and the cached access
\* token is one of the two the exchanges returned.
C38_LastRotationStored ==
    (/\ \A p \in Procs :
           /\ pc[p] = "done"
           /\ loc[p].op = "token"
           /\ loc[p].exchanges = 1
           /\ loc[p].new_refresh_token > OAuthToken)
    => /\ ReadRefreshToken(user_google_tokens, "u1", TRUE) =
             [err |-> None,
              value |-> IF loc["p1"].new_refresh_token
                             > loc["p2"].new_refresh_token
                        THEN loc["p1"].new_refresh_token
                        ELSE loc["p2"].new_refresh_token]
       /\ access_token_cache["u1"] # NoEntry
       /\ EValue(access_token_cache["u1"])
             \in {loc[p].access_token : p \in Procs}


\* The positions of the batch whose item is reconciled against the row of g:
\* a cancellation or an upsert of that event.
C39_Reconciled(events, g) ==
    {i \in DOMAIN events : /\ events[i].id = g
                           /\ ItemAction(events[i]) \in {"delete", "upsert"}}

\* C39: when _store_events has reconciled a batch, the row of every key
\* whose last reconciled item was not a cancellation exists, is not
\* soft-deleted whatever its flag was before, and is returned by a
\* get_cached_events query whose window covers it; the rows of a key whose
\* last reconciled item was a cancellation are soft-deleted; and the rows of
\* a key the batch did not reconcile are as they were.
C39_FlagFollowsLastItem ==
    [][\A p \in Procs :
          (pc[p] = "store" /\ pc'[p] = "update")
          => \A g \in EventIds :
                LET events == loc[p].all_events
                    u == loc[p].user
                    on == C39_Reconciled(events, g)
                    last == CHOOSE i \in on : \A j \in on : j <= i
                    rows == KeyRows(calendar_events', u, g)
                IN IF on = {}
                   THEN rows = KeyRows(calendar_events, u, g)
                   ELSE IF ItemAction(events[last]) = "delete"
                   THEN \A r \in rows : r.is_deleted
                   ELSE /\ rows # {}
                        /\ \A r \in rows :
                              /\ ~r.is_deleted
                              /\ r.title = Title(events[last])
                              /\ CachedFilter(r, u, r.end_time - 1,
                                              r.start_time)]_vars

\* An incremental sync at time 50, after the sync at 25, reconciled a
\* cancellation and then version B of e1: the row is live again.
C39_Witness ==
    /\ pc["p1"] = "update"
    /\ now = 50
    /\ ~loc["p1"].result.is_full_sync
    /\ loc["p1"].result.events_deleted = 1
    /\ loc["p1"].result.events_updated = 1
    /\ \E s \in SyncRows(calendar_sync_state, "u1") : s.last_sync = 25
    /\ \E r \in BagToSet(calendar_events) :
          /\ r.user_id = "u1"
          /\ r.google_event_id = "e1"
          /\ r.title = "B"
          /\ r.synced_at = 50
          /\ ~r.is_deleted


(***************************************************************************)
(* Persisted generate requests of one user, two at a time.                 *)
(***************************************************************************)
NextQuota ==
    \E p \in Procs :
       \/ GenerateHype(p, Users)
       \/ CreateHypeRecord(p)
       \/ UpdateWithText(p)

SpecQuota == InitStore /\ [][NextQuota]_vars

\* C40: the monthly quota is never exceeded: whatever the order and the
\* interleaving of a user's generate requests, the number of the user's hype
\* records created in the current month whose status is not error is at
\* most the monthly limit of the subscription.
C40_QuotaKept ==
    \A u \in Users : MonthlyUsage(hype_records, u, now) <= MONTHLY_LIMIT

====
